---------------------------- MODULE Spec2Model ----------------------------
(***************************************************************************)
(* A model of the data_autopsy measurement store (src/src/autopsy/store.py) *)
(* and of its first-pass anomaly scan (src/src/autopsy/pass1.py).           *)
(*                                                                         *)
(* Numbers.  Signal values, bucket times and the thresholds flatline_eps,  *)
(* missing_rate and spike_mad_z are fixed-point integers in hundredths     *)
(* (5.0 is 500, 0.01 is 1).  Quantities the code divides (medians, MAD     *)
(* z-scores, scores) are kept as exact fractions <<numerator,              *)
(* denominator>> and compared by cross-multiplication.                     *)
(*                                                                         *)
(* Digests.  SHA-256 is taken as collision-free: a digest is modelled by   *)
(* the byte/token sequence it was computed over.                           *)
(***************************************************************************)
EXTENDS Integers, Sequences, FiniteSets, TLC

VARIABLES
    meta_files,   \* store: measurement id -> the file <meta_dir>/<id>.json, if it exists
    art_files,    \* store: artifact path -> the file under <art_dir>, if it exists
    clock,        \* time.time(), in ticks
    hist,         \* what the first call of add / build_overview / run_pass1 returned
    procs,        \* concurrent producers: process -> its call, position and locals
    inp,          \* pure-function specifications: the inputs drawn by Init
    out           \* pure-function specifications: <<>>, or <<what the call returned>>

vars == <<meta_files, art_files, clock, hist, procs, inp, out>>

----------------------------------------------------------------------------
(* Generic helpers *)

None == <<"None">>

Range(s) == {s[i] : i \in 1..Len(s)}

Abs(x) == IF x < 0 THEN -x ELSE x

\* Sequences over S of length 0..n
SeqUpTo(S, n) == UNION {[1..k -> S] : k \in 0..n}

\* Sequences over S without repetition, of length 0..n
InjSeqUpTo(S, n) ==
    {s \in SeqUpTo(S, n) : \A i, j \in 1..Len(s) : i # j => s[i] # s[j]}

\* Python's str ordering (by code point) on the strings the model uses as
\* dict keys and signal names
StrOrder ==
    << "agg", "flatline_eps", "flatline_min_run", "hz", "measurement_id",
       "missing_rate", "overview_cfg", "pass1_cfg", "signal_a", "signal_b",
       "signal_c", "signals", "spike_mad_z", "time_col", "top_k_windows",
       "top_n_signals" >>

StrRank(s) == CHOOSE i \in 1..Len(StrOrder) : StrOrder[i] = s

StrLt(a, b) == StrRank(a) < StrRank(b)

\* the function f on 1..n as an explicit sequence (every element evaluated once)
Tab(f, n) == SubSeq(f, 1, n)

\* <<1, ..., n>>
Indices(n) == Tab([i \in 1..n |-> i], n)

\* list.sort / sorted / sort_values, all stable: s reordered so that s[i]
\* comes before s[j] when lt[i][j], and equal keys keep their order
StableSort(s, lt) ==
    LET n == Len(s)
        before(i) == {j \in 1..n : lt[j][i] \/ (~lt[i][j] /\ j < i)}
        rank == Tab([i \in 1..n |-> Cardinality(before(i)) + 1], n)
    IN Tab([p \in 1..n |-> s[CHOOSE i \in 1..n : rank[i] = p]], n)

----------------------------------------------------------------------------
(* JSON values and stable_json_hash / config_key (store.py 33-36, 117-119) *)
(*                                                                         *)
(* A Python value is a tagged tuple: <<"str", s>>, <<"int", n>>,           *)
(* <<"float", h>> (the float h/100), <<"bool", b>>, None, <<"list", seq>>   *)
(* and                                                                     *)
(* <<"dict", seq of <<key, value>>>> in the dict's insertion order.        *)

PyStr(s) == <<"str", s>>
PyInt(n) == <<"int", n>>
PyFloat(h) == <<"float", h>>
PyList(s) == <<"list", s>>
PyDict(items) == <<"dict", items>>
PyBool(b) == <<"bool", b>>

Tok(c) == <<c>>

\* the order in which json.dumps walks a dict's items without sort_keys
ItemsUnsorted(items) == items

\* json.dumps(..., sort_keys=True) walks a dict's items sorted by key
ItemsSorted(items) ==
    StableSort(items,
               [i \in 1..Len(items) |-> [j \in 1..Len(items) |->
                    StrLt(items[i][1], items[j][1])]])

RECURSIVE JsonDumps(_)
RECURSIVE JsonDumpsItems(_)
RECURSIVE JsonDumpsElems(_)
\* the items of a dict, already in output order, separated by ","
JsonDumpsItems(items) ==
    IF items = <<>> THEN <<>>
    ELSE <<PyStr(items[1][1]), Tok(":")>> \o JsonDumps(items[1][2])
         \o (IF Len(items) > 1 THEN <<Tok(",")>> ELSE <<>>)
         \o JsonDumpsItems(Tail(items))
\* the elements of a list, in list order, separated by ","
JsonDumpsElems(elems) ==
    IF elems = <<>> THEN <<>>
    ELSE JsonDumps(elems[1])
         \o (IF Len(elems) > 1 THEN <<Tok(",")>> ELSE <<>>)
         \o JsonDumpsElems(Tail(elems))
\* json.dumps(obj, sort_keys=True, separators=(",", ":")) as a token sequence
JsonDumps(v) ==
    IF v[1] = "dict"
        THEN <<Tok("{")>> \o JsonDumpsItems(ItemsSorted(v[2])) \o <<Tok("}")>>
    ELSE IF v[1] = "list"
        THEN <<Tok("[")>> \o JsonDumpsElems(v[2]) \o <<Tok("]")>>
    ELSE IF v = None THEN <<Tok("null")>>
    ELSE <<v>>

\* hashlib.sha256(payload).hexdigest(), collision-free
Sha256(payload) == payload

stable_json_hash(obj) == Sha256(JsonDumps(obj))

\* a key that is the same for every configuration
ConstantKey(config) == <<>>

\* stable_json_hash(config)[:16]; the 16-digit prefix is taken as
\* collision-free like the digest
config_key(config) == stable_json_hash(config)

\* dict lookup
DictGet(d, k) ==
    LET i == CHOOSE j \in 1..Len(d[2]) : d[2][j][1] = k IN d[2][i][2]

DictKeys(d) == {d[2][i][1] : i \in 1..Len(d[2])}

\* Two configurations have the same content: dicts hold the same keys with
\* the same values whatever their insertion order, lists hold the same
\* elements in the same order, and scalars are the same typed value
RECURSIVE SameConfig(_, _)
SameConfig(a, b) ==
    IF a[1] = "dict" /\ b[1] = "dict"
        THEN /\ DictKeys(a) = DictKeys(b)
             /\ \A k \in DictKeys(a) : SameConfig(DictGet(a, k), DictGet(b, k))
    ELSE IF a[1] = "list" /\ b[1] = "list"
        THEN /\ Len(a[2]) = Len(b[2])
             /\ \A i \in 1..Len(a[2]) : SameConfig(a[2][i], b[2][i])
    ELSE a = b

----------------------------------------------------------------------------
(* SpecKey: config_key applied to configurations that are reordered and    *)
(* changed step by step                                                    *)

\* the longest signals list Init draws
MaxList == 2

SignalNames == {"signal_a", "signal_b", "signal_c"}

KeyHzValues == {PyInt(1), PyFloat(100), PyFloat(200)}

KeySignalsValues ==
    {None} \cup {PyList([i \in 1..Len(s) |-> PyStr(s[i])]) :
                    s \in InjSeqUpTo(SignalNames, MaxList)}

KeyAggValues ==
    { PyList(<<PyStr("min"), PyStr("max")>>), PyList(<<PyStr("mean")>>) }

\* the configurations Init draws, each in one insertion order; the swap
\* actions reach the other orders
KeyConfigs ==
    { PyDict(<< <<"signals", sg>>,
                <<"hz", hz>>,
                <<"overview_cfg",
                  PyDict(<< <<"agg", ag>>, <<"time_col", PyStr("timestamp")>> >>)>> >>) :
        sg \in KeySignalsValues, hz \in KeyHzValues, ag \in KeyAggValues }

Swap(s, i) == [s EXCEPT ![i] = s[i + 1], ![i + 1] = s[i]]

\* d with the value at key k replaced by v, the insertion order kept
DictSet(d, k, v) ==
    PyDict([i \in 1..Len(d[2]) |->
              IF d[2][i][1] = k THEN <<k, v>> ELSE d[2][i]])

KeyIdle ==
    /\ meta_files = <<>> /\ art_files = <<>> /\ clock = 0
    /\ hist = <<>> /\ procs = <<>>

KeyInit ==
    /\ KeyIdle
    /\ \E c \in KeyConfigs : inp = [orig |-> c, cur |-> c]
    /\ out = <<>>

KeyFrame == UNCHANGED <<meta_files, art_files, clock, hist, procs>>

\* the caller lists two adjacent top-level keys in the other order
KeySwapTopKeys ==
    /\ \E i \in 1..(Len(inp.cur[2]) - 1) :
          inp' = [inp EXCEPT !.cur = PyDict(Swap(inp.cur[2], i))]
    /\ out' = <<>>
    /\ KeyFrame

\* the caller lists two adjacent keys of the nested dict in the other order
KeySwapNestedKeys ==
    /\ LET nested == DictGet(inp.cur, "overview_cfg") IN
        \E i \in 1..(Len(nested[2]) - 1) :
          inp' = [inp EXCEPT !.cur =
                    DictSet(inp.cur, "overview_cfg", PyDict(Swap(nested[2], i)))]
    /\ out' = <<>>
    /\ KeyFrame

\* the caller lists two different adjacent elements of signals in the other order
KeySwapSignals ==
    /\ LET sg == DictGet(inp.cur, "signals") IN
        /\ sg # None
        /\ \E i \in 1..(Len(sg[2]) - 1) :
              inp' = [inp EXCEPT !.cur =
                        DictSet(inp.cur, "signals", PyList(Swap(sg[2], i)))]
    /\ out' = <<>>
    /\ KeyFrame

\* the caller lists two adjacent elements of the nested agg in the other order
KeySwapAgg ==
    /\ LET nested == DictGet(inp.cur, "overview_cfg")
            ag == DictGet(nested, "agg") IN
        \E i \in 1..(Len(ag[2]) - 1) :
          inp' = [inp EXCEPT !.cur =
                    DictSet(inp.cur, "overview_cfg",
                            DictSet(nested, "agg", PyList(Swap(ag[2], i))))]
    /\ out' = <<>>
    /\ KeyFrame

\* the caller changes the value of hz
KeySetHz ==
    /\ \E hz \in KeyHzValues \ {DictGet(inp.cur, "hz")} :
          inp' = [inp EXCEPT !.cur = DictSet(inp.cur, "hz", hz)]
    /\ out' = <<>>
    /\ KeyFrame

\* config_key is called on the original and on the current configuration
KeyCall ==
    /\ out = <<>>
    /\ out' = <<[c1 |-> inp.orig, c2 |-> inp.cur,
               k1 |-> config_key(inp.orig), k2 |-> config_key(inp.cur)]>>
    /\ UNCHANGED inp
    /\ KeyFrame

KeyNext ==
    \/ KeySwapTopKeys
    \/ KeySwapNestedKeys
    \/ KeySwapSignals
    \/ KeySwapAgg
    \/ KeySetHz
    \/ KeyCall

SpecKey == KeyInit /\ [][KeyNext]_vars

\* C5: config_key depends on the configuration's content alone: two
\* configurations get the same key exactly when they hold the same keys and
\* values, whatever the order their keys are listed in at either nesting
\* level, and a changed value or a reordered signals/agg list changes the key.
C5_KeyIsFunctionOfContent ==
    out # <<>> => ((out[1].k1 = out[1].k2) <=> SameConfig(out[1].c1, out[1].c2))

\* C5 witness: config_key was called on two configurations with the same
\* content whose keys are listed in different orders at both levels
C5_Witness ==
    /\ out # <<>>
    /\ SameConfig(out[1].c1, out[1].c2)
    /\ out[1].c1[2][1][1] # out[1].c2[2][1][1]
    /\ DictGet(out[1].c1, "overview_cfg")[2][1][1]
         # DictGet(out[1].c2, "overview_cfg")[2][1][1]
    /\ out[1].k1 = out[1].k2

----------------------------------------------------------------------------
(* Pass 1 (pass1.py).  An overview is a record [columns, rows]: columns    *)
(* is the set of <<signal, stat>> aggregate columns the table has, rows is *)
(* a sequence of [bucket, time, cells] where time is <<>> (NaN) or <<t>>   *)
(* and cells[signal] is [min, mean, max], each <<>> (NaN) or <<v>>.        *)
(* Row and list positions are 1-based here and 0-based in the code.        *)

RECURSIVE Gcd(_, _)
Gcd(a, b) == IF b = 0 THEN Abs(a) ELSE Gcd(b, a % b)

\* the fraction p/q (q > 0) in lowest terms
Frac(p, q) == LET g == Gcd(p, q) IN IF g = 0 THEN <<0, 1>> ELSE <<p \div g, q \div g>>

FracAdd(a, b) == Frac(a[1] * b[2] + b[1] * a[2], a[2] * b[2])

\* 0.6745, in ten-thousandths
MadScale == 6745

\* A score is [n, r]: the float n + 0.6745 * r[1]/r[2]
ScoreAdd(a, b) == [n |-> a.n + b.n, r |-> FracAdd(a.r, b.r)]

ScoreZero == [n |-> 0, r |-> <<0, 1>>]

\* a < b on scores
ScoreLt(a, b) ==
    (a.n - b.n) * 10000 * a.r[2] * b.r[2]
        < MadScale * (b.r[1] * a.r[2] - a.r[1] * b.r[2])

ScoreEq(a, b) == ~ScoreLt(a, b) /\ ~ScoreLt(b, a)

IsNaN(x) == x = <<>>

\* the k-th smallest element of a sequence of integers (1 <= k <= Len(s))
KthSmallest(s, k) ==
    CHOOSE v \in Range(s) :
        /\ Cardinality({i \in 1..Len(s) : s[i] < v}) < k
        /\ Cardinality({i \in 1..Len(s) : s[i] <= v}) >= k

\* twice np.nanmedian of a non-empty sequence of integers
Median2(s) ==
    LET n == Len(s)
    IN IF n % 2 = 1 THEN 2 * KthSmallest(s, (n + 1) \div 2)
       ELSE KthSmallest(s, n \div 2) + KthSmallest(s, n \div 2 + 1)

\* the last position <= i where mask is False, 0 if there is none
LastFalse(mask, i) ==
    LET falses == {j \in 1..i : ~mask[j]}
    IN IF falses = {} THEN 0 ELSE CHOOSE j \in falses : \A k \in falses : k <= j

\* A loop that scans mask for runs of True closes a run at every position
\* idx that holds False right after a True, and at Len(mask) + 1 for a run
\* that reaches the end.  The positions where it does so, ascending:
RunClosings(mask) ==
    LET n == Len(mask)
        Closes(idx) ==
            /\ idx >= 2 /\ mask[idx - 1]
            /\ (idx = n + 1 \/ ~mask[idx])
    IN SelectSeq(Indices(n + 1), Closes)

\* the run scan of _flatline_mask (the loop over enumerate(mask) and the
\* append after it): the runs of True in mask, as [start, end, length];
\* when the loop closes a run at idx, start is the position after the last
\* False before idx - 1 and length counts the Trues since
FlatlineRuns(mask) ==
    LET closings == RunClosings(mask)
    IN Tab([k \in 1..Len(closings) |->
              LET start == LastFalse(mask, closings[k] - 1) + 1
              IN [start |-> start, end |-> closings[k] - 1,
                  length |-> closings[k] - start]],
           Len(closings))

\* a run test that wants a run longer than min_run
RunQualifiesLonger(run, min_run) == run.length > min_run

\* whether a run of _flatline_mask is marked
RunQualifies(run, min_run) == run.length >= min_run

_flatline_mask(spread, min_run) ==
    LET runs == FlatlineRuns(spread) IN
    Tab([idx \in 1..Len(spread) |->
            \E k \in 1..Len(runs) :
                /\ RunQualifies(runs[k], min_run)
                /\ runs[k].start <= idx /\ idx <= runs[k].end],
        Len(spread))

\* _mad_z: the z-scores as fractions r with z = 0.6745 * r, r = (x - median)/MAD
_mad_z(values) ==
    IF Len(values) = 0 THEN <<>>
    ELSE LET n == Len(values)
             median2 == Median2(values)
             dev2 == Tab([i \in 1..n |-> Abs(2 * values[i] - median2)], n)
             mad4 == Median2(dev2)
         IN IF mad4 = 0
               THEN Tab([i \in 1..n |-> <<0, 1>>], n)
               ELSE Tab([i \in 1..n |-> Frac(2 * (2 * values[i] - median2), mad4)], n)

\* overview[f"{signal}_{stat}"] as a sequence over the rows
Column(rows, signal, stat) ==
    Tab([i \in 1..Len(rows) |-> rows[i].cells[signal][stat]], Len(rows))

\* mean_values.isna()
MissingMask(means) == Tab([i \in 1..Len(means) |-> IsNaN(means[i])], Len(means))

CountTrue(mask) == Cardinality({i \in 1..Len(mask) : mask[i]})

\* float(missing_mask.mean()) >= missing_threshold, the threshold in
\* hundredths; the mean of no rows is NaN and compares False
MissingRateFlagged(means, missing_threshold) ==
    /\ Len(means) > 0
    /\ CountTrue(MissingMask(means)) * 100 >= missing_threshold * Len(means)

\* missing_mask & (missing_rate >= missing_threshold)
MissingFlagMask(means, missing_threshold) ==
    LET missing_mask == MissingMask(means)
        over == MissingRateFlagged(means, missing_threshold)
    IN Tab([i \in 1..Len(means) |-> missing_mask[i] /\ over], Len(means))

\* ((max - min) <= flatline_eps).fillna(False): a NaN spread compares False
SpreadMask(mins, maxs, flatline_eps) ==
    Tab([i \in 1..Len(mins) |->
            /\ ~IsNaN(mins[i]) /\ ~IsNaN(maxs[i])
            /\ maxs[i][1] - mins[i][1] <= flatline_eps],
        Len(mins))

\* the second scan, over flatline_mask: the number of runs of flagged
\* buckets (counted where a run closes) and the longest current_run
FlatlineRunStats(flatline_mask) ==
    LET closings == RunClosings(flatline_mask)
        lengths == {closings[k] - 1 - LastFalse(flatline_mask, closings[k] - 1) :
                        k \in 1..Len(closings)}
    IN [ flatline_runs |-> Len(closings),
         flatline_max_run |->
            IF lengths = {} THEN 0
            ELSE CHOOSE m \in lengths : \A l \in lengths : l <= m ]

\* mean_values.diff().fillna(0.0): the first difference, 0 where it is NaN
MeanDiffs(means) ==
    Tab([i \in 1..Len(means) |->
            IF i = 1 \/ IsNaN(means[i]) \/ IsNaN(means[i - 1]) THEN 0
            ELSE means[i][1] - means[i - 1][1]],
        Len(means))

FracAbs(r) == <<Abs(r[1]), r[2]>>

\* spike_z_abs >= spike_mad_z, the threshold in hundredths
SpikeMask(spike_z, spike_mad_z) ==
    Tab([i \in 1..Len(spike_z) |->
            MadScale * Abs(spike_z[i][1]) >= spike_mad_z * 100 * spike_z[i][2]],
        Len(spike_z))

\* float(np.nanmax(spike_z_abs)) if spike_z_abs.size else 0.0
SpikeMax(spike_z) ==
    IF Len(spike_z) = 0 THEN <<0, 1>>
    ELSE LET i == CHOOSE i \in 1..Len(spike_z) :
                    \A j \in 1..Len(spike_z) :
                        Abs(spike_z[j][1]) * spike_z[i][2]
                            <= Abs(spike_z[i][1]) * spike_z[j][2]
         IN FracAbs(spike_z[i])

\* sorted({col.rsplit("_", 1)[0] for col in columns if ... in agg})
InferSignals(columns, agg) ==
    LET names == {c[1] : c \in {d \in columns : d[2] \in Range(agg)}}
        F[S \in SUBSET names] ==
            IF S = {} THEN <<>>
            ELSE LET least == CHOOSE x \in S : \A y \in S \ {x} : StrLt(x, y)
                 IN <<least>> \o F[S \ {least}]
    IN F[names]

\* overview_df.sort_values("bucket").reset_index(drop=True)
SortByBucket(rows) ==
    StableSort(rows,
               [i \in 1..Len(rows) |-> [j \in 1..Len(rows) |->
                    rows[i].bucket < rows[j].bucket]])

\* 1.5, in hundredths
GapFactor == 150

\* the timestamp checks; hz in hundredths and not 0, times in hundredths of
\* a second; gap_indices are the code's 0-based row positions
TimestampChecks(rows, hz) ==
    LET n == Len(rows)
        IsNaNDiff(i) == i = 1 \/ IsNaN(rows[i].time) \/ IsNaN(rows[i - 1].time)
        Diff(i) == rows[i].time[1] - rows[i - 1].time[1]
        \* diffs > expected_gap * 1.5, with expected_gap = 1.0 / hz
        IsGap(i) ==
            /\ ~IsNaNDiff(i)
            /\ IF hz > 0 THEN Diff(i) * hz > GapFactor * 100
                         ELSE Diff(i) * hz < GapFactor * 100
        \* np.where(gap_mask)[0]: the code's positions are 0-based
        gap_rows == SelectSeq(Indices(n), IsGap)
        gap_indices == Tab([k \in 1..Len(gap_rows) |-> gap_rows[k] - 1], Len(gap_rows))
    IN [ monotonic |->
            \A i \in 2..n : IF IsNaNDiff(i) THEN hz > 0 ELSE Diff(i) >= 0,
         gap_count |-> Len(gap_indices),
         gap_indices |-> gap_indices,
         \* 1.0 / hz, as the fraction 100 / hz of a second
         expected_gap_seconds |-> <<100, hz>> ]

\* the three aggregate columns the loop requires of a signal
HasColumns(columns, signal) ==
    /\ <<signal, "mean">> \in columns
    /\ <<signal, "min">> \in columns
    /\ <<signal, "max">> \in columns

\* flagged: missing or flatline or spike, bucket by bucket
FlaggedMask(rows, signal, pass1_cfg) ==
    LET means == Column(rows, signal, "mean")
        missing == MissingFlagMask(means, pass1_cfg.missing_rate)
        flatline == _flatline_mask(
                        SpreadMask(Column(rows, signal, "min"),
                                   Column(rows, signal, "max"),
                                   pass1_cfg.flatline_eps),
                        pass1_cfg.flatline_min_run)
        spike == SpikeMask(_mad_z(MeanDiffs(means)), pass1_cfg.spike_mad_z)
    IN Tab([i \in 1..Len(rows) |-> missing[i] \/ flatline[i] \/ spike[i]], Len(rows))

\* the buckets of the rows a mask flags, in row order
FlaggedBuckets(rows, flagged) ==
    LET IsFlagged(i) == flagged[i]
        idx == SelectSeq(Indices(Len(rows)), IsFlagged)
    IN Tab([k \in 1..Len(idx) |-> rows[idx[k]].bucket], Len(idx))

\* per_signal[signal]; flagged is the signal's FlaggedMask
PerSignalStats(rows, signal, pass1_cfg, flagged) ==
    LET means == Column(rows, signal, "mean")
        flatline == _flatline_mask(
                        SpreadMask(Column(rows, signal, "min"),
                                   Column(rows, signal, "max"),
                                   pass1_cfg.flatline_eps),
                        pass1_cfg.flatline_min_run)
        stats == FlatlineRunStats(flatline)
    IN [ missing_rate |-> <<CountTrue(MissingMask(means)), Len(means)>>,
         missing_rate_flagged |-> MissingRateFlagged(means, pass1_cfg.missing_rate),
         flatline_run_count |-> stats.flatline_runs,
         flatline_max_run |-> stats.flatline_max_run,
         spike_mad_z_max |-> SpikeMax(_mad_z(MeanDiffs(means))),
         flagged_bucket_count |-> CountTrue(flagged),
         flagged_buckets |-> FlaggedBuckets(rows, flagged) ]

\* union_flags: the bucket-wise OR of the signals' flags
UnionFlags(n, flagged_by_signal) ==
    Tab([i \in 1..n |-> \E sg \in DOMAIN flagged_by_signal : flagged_by_signal[sg][i]], n)

\* a window scan without the append after the loop: the runs of True that
\* a False closes
WindowRunsClosedInLoop(union_flags) ==
    LET InLoop(c) == c <= Len(union_flags)
        closings == SelectSeq(RunClosings(union_flags), InLoop)
    IN Tab([k \in 1..Len(closings) |->
              [start_idx |-> LastFalse(union_flags, closings[k] - 1) + 1,
               end_idx |-> closings[k] - 1]],
           Len(closings))

\* the window scan (the loop over enumerate(union_flags) and the append
\* after it): the runs of True in union_flags, as [start_idx, end_idx]
\* (1-based row positions); start_idx is where the run the loop closes began
WindowRuns(union_flags) ==
    LET closings == RunClosings(union_flags)
    IN Tab([k \in 1..Len(closings) |->
              [start_idx |-> LastFalse(union_flags, closings[k] - 1) + 1,
               end_idx |-> closings[k] - 1]],
           Len(closings))

\* the sort key of signal_scores: (-score, signal)
SignalScoreBefore(x, y) ==
    \/ ScoreLt(y.score, x.score)
    \/ ScoreEq(x.score, y.score) /\ StrLt(x.signal, y.signal)

\* signal_scores.sort(key=lambda item: (-item["score"], item["signal"]))
SortSignalScores(signal_scores) ==
    StableSort(signal_scores,
               [i \in 1..Len(signal_scores) |-> [j \in 1..Len(signal_scores) |->
                    SignalScoreBefore(signal_scores[i], signal_scores[j])]])

\* a window order by ascending score
WindowBeforeAscending(x, y) ==
    \/ ScoreLt(x.score, y.score)
    \/ ScoreEq(x.score, y.score) /\ x.start_bucket < y.start_bucket

\* the sort key of window_results: (-score, start_bucket)
WindowBefore(x, y) ==
    \/ ScoreLt(y.score, x.score)
    \/ ScoreEq(x.score, y.score) /\ x.start_bucket < y.start_bucket

\* window_results.sort(key=lambda item: (-item["score"], item["start_bucket"]))
SortWindowResults(window_results) ==
    StableSort(window_results,
               [i \in 1..Len(window_results) |-> [j \in 1..Len(window_results) |->
                    WindowBefore(window_results[i], window_results[j])]])

\* one signal's entry of a window's signal_scores
SignalScore(signal, flags, window, spike_max) ==
    LET flagged_count ==
            Cardinality({i \in window.start_idx..window.end_idx : flags[i]})
    IN [ signal |-> signal,
         flagged_bucket_count |-> flagged_count,
         spike_mad_z_max |-> spike_max,
         score |-> [n |-> flagged_count, r |-> spike_max] ]

\* one entry of window_results
WindowResult(rows, signals, flagged_by_signal, per_signal, window) ==
    LET signal_scores ==
            Tab([k \in 1..Len(signals) |->
                    SignalScore(signals[k], flagged_by_signal[signals[k]], window,
                                per_signal[signals[k]].spike_mad_z_max)],
                Len(signals))
        Total[k \in 0..Len(signals)] ==
            IF k = 0 THEN ScoreZero
            ELSE ScoreAdd(Total[k - 1], signal_scores[k].score)
        start_bucket == rows[window.start_idx].bucket
        end_bucket == rows[window.end_idx].bucket
    IN [ start_bucket |-> start_bucket,
         end_bucket |-> end_bucket,
         start_time |-> rows[window.start_idx].time,
         end_time |-> rows[window.end_idx].time,
         duration_buckets |-> end_bucket - start_bucket + 1,
         score |-> Total[Len(signals)],
         signals |-> SortSignalScores(signal_scores) ]

\* build_pass1_from_overview; now is time.time().  The sorted overview,
\* the signals' flags and their statistics are each computed once and
\* handed on as a value (the one element of a set).
build_pass1_from_overview(overview_df, measurement_id, overview_cfg, pass1_cfg, key, cache_hit, now) ==
    LET signals == IF overview_cfg.signals = None
                      THEN InferSignals(overview_df.columns, overview_cfg.agg)
                      ELSE overview_cfg.signals
        At(sg) == CHOOSE k \in 1..Len(signals) : signals[k] = sg
        Rank(overview, flags, stats) ==
            LET flagged_by_signal == [sg \in Range(signals) |-> flags[At(sg)]]
                per_signal == [sg \in Range(signals) |-> stats[At(sg)]]
                windows == WindowRuns(UnionFlags(Len(overview), flagged_by_signal))
                window_results ==
                    Tab([k \in 1..Len(windows) |->
                            WindowResult(overview, signals, flagged_by_signal, per_signal,
                                         windows[k])],
                        Len(windows))
            IN [ status |-> "ok",
                 measurement_id |-> measurement_id,
                 overview_cfg |-> overview_cfg,
                 pass1_cfg |-> pass1_cfg,
                 key |-> key,
                 created_at_unix |-> now,
                 per_signal |-> per_signal,
                 timestamp_checks |-> TimestampChecks(overview, overview_cfg.hz),
                 windows |-> SortWindowResults(window_results),
                 cache_hit |-> cache_hit ]
        Stats(overview, flags) ==
            CHOOSE r \in { Rank(overview, flags, x) :
                             x \in { Tab([k \in 1..Len(signals) |->
                                            PerSignalStats(overview, signals[k], pass1_cfg,
                                                           flags[k])],
                                         Len(signals)) } } : TRUE
        Flags(overview) ==
            CHOOSE r \in { Stats(overview, x) :
                             x \in { Tab([k \in 1..Len(signals) |->
                                            FlaggedMask(overview, signals[k], pass1_cfg)],
                                         Len(signals)) } } : TRUE
    IN IF overview_cfg.hz = 0 THEN [status |-> "ZeroDivisionError"]
       ELSE IF \E k \in 1..Len(signals) : ~HasColumns(overview_df.columns, signals[k])
          THEN [status |-> "KeyError"]
       ELSE CHOOSE r \in { Flags(x) : x \in { SortByBucket(overview_df.rows) } } : TRUE

----------------------------------------------------------------------------
(* SpecPass1: build_pass1_from_overview applied to every overview of a     *)
(* bounded family                                                          *)

\* the most rows of an overview Init draws
MaxRows == 3

Cell(mn, mean, mx) == [min |-> mn, mean |-> mean, max |-> mx]

CellMissing == Cell(<<>>, <<>>, <<>>)

\* what a bucket of signal_a may hold: nothing, a constant 0.0, or values
\* spread from 2.0 to 4.0 around 3.0
CellsA ==
    { CellMissing, Cell(<<0>>, <<0>>, <<0>>), Cell(<<200>>, <<300>>, <<400>>) }

\* what a bucket of signal_b may hold: nothing, or values spread from 0.0 to 2.0
CellsB == { CellMissing, Cell(<<0>>, <<100>>, <<200>>) }

\* the bucket indices of n rows: consecutive from 0, or with the bucket
\* before the last row omitted, or consecutive with the rows in descending
\* order
BucketLists(n) ==
    { [i \in 1..n |-> IF g # 0 /\ i >= g THEN i ELSE i - 1] : g \in {0, n} \ {1} }
        \cup { [i \in 1..n |-> n - i] }

AllColumns ==
    {<<sg, st>> : sg \in {"signal_a", "signal_b"}, st \in {"min", "mean", "max"}}

\* the overviews of n rows at 1 Hz: bucket time = bucket index / hz
Overviews(n) ==
    { [ columns |-> AllColumns,
        rows |-> [i \in 1..n |->
                    [ bucket |-> b[i], time |-> <<b[i] * 100>>,
                      cells |-> [signal_a |-> ca[i], signal_b |-> cb[i]] ]] ] :
        b \in BucketLists(n), ca \in [1..n -> CellsA], cb \in [1..n -> CellsB] }

P1OverviewCfgs ==
    { [ signals |-> sg, hz |-> 100, agg |-> <<"min", "mean", "max">>,
        time_col |-> "timestamp" ] :
        sg \in { None, <<"signal_b", "signal_a">> } }

P1Cfgs ==
    { [ missing_rate |-> mr, flatline_eps |-> 1, flatline_min_run |-> run,
        spike_mad_z |-> 100, top_k_windows |-> 5, top_n_signals |-> 2 ] :
        mr \in {30, 100}, run \in {1, 2} }

P1Idle ==
    /\ meta_files = <<>> /\ art_files = <<>> /\ clock = 0
    /\ hist = <<>> /\ procs = <<>>

P1Init ==
    /\ P1Idle
    /\ \E n \in 1..MaxRows : \E ov \in Overviews(n) :
       \E ocfg \in P1OverviewCfgs : \E pcfg \in P1Cfgs :
          inp = [overview_df |-> ov, overview_cfg |-> ocfg, pass1_cfg |-> pcfg]
    /\ out = <<>>

\* Pass 1 runs on the drawn overview
P1Run ==
    /\ out = <<>>
    /\ out' = << build_pass1_from_overview(inp.overview_df, "m_1", inp.overview_cfg,
                                           inp.pass1_cfg, "key", FALSE, 0) >>
    /\ UNCHANGED <<inp, meta_files, art_files, clock, hist, procs>>

P1Next == P1Run

SpecPass1 == P1Init /\ [][P1Next]_vars

\* the rows Pass 1 works on
P1Rows == SortByBucket(inp.overview_df.rows)

\* whether row i is a flatline candidate of a signal: both ends of its
\* spread present and no more than flatline_eps apart
IsCandidate(rows, signal, i) ==
    LET cell == rows[i].cells[signal]
    IN /\ cell.min # <<>> /\ cell.max # <<>>
       /\ cell.max[1] - cell.min[1] <= inp.pass1_cfg.flatline_eps

\* the maximal runs <<first, last>> of consecutive candidate rows of a signal
MaximalRuns(rows, signal) ==
    LET n == Len(rows)
    IN { r \in (1..n) \X (1..n) :
           /\ r[1] <= r[2]
           /\ \A i \in r[1]..r[2] : IsCandidate(rows, signal, i)
           /\ (r[1] = 1 \/ ~IsCandidate(rows, signal, r[1] - 1))
           /\ (r[2] = n \/ ~IsCandidate(rows, signal, r[2] + 1)) }

\* those of them that are at least flatline_min_run rows long
QualifyingRuns(rows, signal) ==
    { r \in MaximalRuns(rows, signal) :
         r[2] - r[1] + 1 >= inp.pass1_cfg.flatline_min_run }

\* the flatline mask Pass 1 computes for a signal
P1FlatlineMask(rows, signal) ==
    _flatline_mask(SpreadMask(Column(rows, signal, "min"), Column(rows, signal, "max"),
                              inp.pass1_cfg.flatline_eps),
                   inp.pass1_cfg.flatline_min_run)

\* C9: a bucket is flatline-flagged exactly when it lies in a maximal run
\* of consecutive candidate buckets at least flatline_min_run long; a
\* flatline-flagged bucket is among the signal's flagged buckets; and
\* flatline_run_count and flatline_max_run are the number of such runs and
\* the length of the longest (0 when there is none).
C9_FlatlineRuns ==
    (out # <<>> /\ out[1].status = "ok") =>
        \E rows \in {P1Rows} :
        \A sg \in DOMAIN out[1].per_signal :
        \E runs \in {QualifyingRuns(rows, sg)} :
        \E mask \in {P1FlatlineMask(rows, sg)} :
           LET lengths == {r[2] - r[1] + 1 : r \in runs}
               stats == out[1].per_signal[sg]
           IN /\ \A i \in 1..Len(rows) :
                    /\ mask[i] <=> \E r \in runs : r[1] <= i /\ i <= r[2]
                    /\ mask[i] => rows[i].bucket \in Range(stats.flagged_buckets)
              /\ stats.flatline_run_count = Cardinality(runs)
              /\ \A l \in lengths : l <= stats.flatline_max_run
              /\ stats.flatline_max_run \in lengths \cup {0}
              /\ (lengths = {} => stats.flatline_max_run = 0)

\* C9 witness: Pass 1 ran with flatline_min_run = 2 on an overview where
\* signal_a has a run of exactly two candidate buckets, which it reports as
\* its one flatline run, next to a bucket that is no candidate
C9_Witness ==
    /\ out # <<>> /\ out[1].status = "ok"
    /\ inp.pass1_cfg.flatline_min_run = 2
    /\ \E r \in QualifyingRuns(P1Rows, "signal_a") : r[2] - r[1] + 1 = 2
    /\ \E i \in 1..Len(P1Rows) :
          ~IsCandidate(P1Rows, "signal_a", i) /\ P1Rows[i].cells["signal_a"].min # <<>>
    /\ out[1].per_signal["signal_a"].flatline_run_count = 1
    /\ out[1].per_signal["signal_a"].flatline_max_run = 2

\* a signal's score in a window, from the result's per-signal statistics:
\* its flagged buckets inside the window plus its maximum |z|
ScoreInWindow(result, signal, w) ==
    [ n |-> Cardinality({b \in Range(result.per_signal[signal].flagged_buckets) :
                            w.start_bucket <= b /\ b <= w.end_bucket}),
      r |-> result.per_signal[signal].spike_mad_z_max ]

\* the sum of the signals' scores in a window
WindowScore(result, w) ==
    LET sgs == w.signals
        Total[k \in 0..Len(sgs)] ==
            IF k = 0 THEN ScoreZero
            ELSE ScoreAdd(Total[k - 1], ScoreInWindow(result, sgs[k].signal, w))
    IN Total[Len(sgs)]

\* C10: with a signal's score its flagged buckets in the window plus its
\* maximum |z| and a window's score the sum of its signals' scores, the
\* windows are listed by descending score, equal scores by ascending
\* start_bucket, and each window's signals by descending score, equal
\* scores by ascending name.
C10_Ranking ==
    (out # <<>> /\ out[1].status = "ok") =>
        LET ws == out[1].windows
        IN /\ \A k \in 1..Len(ws) :
                /\ ScoreEq(ws[k].score, WindowScore(out[1], ws[k]))
                /\ {ws[k].signals[i].signal : i \in 1..Len(ws[k].signals)}
                      = DOMAIN out[1].per_signal
                /\ \A i \in 1..Len(ws[k].signals) :
                      ScoreEq(ws[k].signals[i].score,
                              ScoreInWindow(out[1], ws[k].signals[i].signal, ws[k]))
                /\ \A i, j \in 1..Len(ws[k].signals) : i < j =>
                      LET x == ws[k].signals[i]
                          y == ws[k].signals[j]
                      IN \/ ScoreLt(y.score, x.score)
                         \/ ScoreEq(x.score, y.score) /\ StrLt(x.signal, y.signal)
           /\ \A i, j \in 1..Len(ws) : i < j =>
                \/ ScoreLt(ws[j].score, ws[i].score)
                \/ ScoreEq(ws[i].score, ws[j].score)
                     /\ ws[i].start_bucket < ws[j].start_bucket

\* C10 witness: a result with two windows where the later window has the
\* higher score and is listed first, and where signal_a, configured after
\* signal_b, outscores it in that window and is listed first
C10_Witness ==
    /\ out # <<>> /\ out[1].status = "ok"
    /\ inp.overview_cfg.signals = <<"signal_b", "signal_a">>
    /\ Len(out[1].windows) = 2
    /\ out[1].windows[1].start_bucket > out[1].windows[2].start_bucket
    /\ ScoreLt(out[1].windows[2].score, out[1].windows[1].score)
    /\ out[1].windows[1].signals[1].signal = "signal_a"
    /\ ScoreLt(out[1].windows[1].signals[2].score, out[1].windows[1].signals[1].score)

----------------------------------------------------------------------------
(* SpecScenario: the overview of tests/test_autopsy_pass1.py, with the     *)
(* bucket of signal_b's spike drawn by Init, and with signal_b either      *)
(* constant inside every bucket (as in the test) or spread around its mean *)

\* range(60): the buckets of the test's CSV
NBuckets == 60
\* signal_a is constant on buckets 20..29
FlatFrom == 20
FlatTo == 29
\* the constant 5.0 of signal_a there
FlatValue == 500
\* the bucket where the test puts signal_b's spike, and its value 100.0
SpikeAt == 50
SpikeValue == 10000

\* signal_a in bucket b: the rows b and b + 0.5 elsewhere, 5.0 and 5.0 on the flat
ScenCellA(b) ==
    IF FlatFrom <= b /\ b <= FlatTo
        THEN Cell(<<FlatValue>>, <<FlatValue>>, <<FlatValue>>)
        ELSE Cell(<<100 * b>>, <<100 * b + 25>>, <<100 * b + 50>>)

\* signal_b in bucket b when the spike is at bucket k: its mean, with the
\* bucket's min and max half a spread h below and above it
ScenCellB(b, k, h) ==
    IF b = k THEN Cell(<<SpikeValue - h>>, <<SpikeValue>>, <<SpikeValue + h>>)
             ELSE Cell(<<0 - h>>, <<0>>, <<0 + h>>)

ScenOverview(k, h) ==
    [ columns |-> AllColumns,
      rows |-> [i \in 1..NBuckets |->
                  [ bucket |-> i - 1, time |-> <<(i - 1) * 100>>,
                    cells |-> [signal_a |-> ScenCellA(i - 1),
                               signal_b |-> ScenCellB(i - 1, k, h)] ]] ]

\* the pass1_cfg of the test
ScenPass1Cfg ==
    [ missing_rate |-> 10, flatline_eps |-> 1, flatline_min_run |-> 10,
      spike_mad_z |-> 500, top_k_windows |-> 5, top_n_signals |-> 2 ]

ScenOverviewCfg(signals) ==
    [ signals |-> signals, hz |-> 100, agg |-> <<"min", "mean", "max">>,
      time_col |-> "timestamp" ]

ScenInit ==
    /\ P1Idle
    /\ \E k \in 0..(NBuckets - 1) :
       \E signals \in { <<"signal_a", "signal_b">>, <<"signal_b">> } :
       \E h \in {0, 25} :
          inp = [ overview_df |-> ScenOverview(k, h),
                  overview_cfg |-> ScenOverviewCfg(signals),
                  pass1_cfg |-> ScenPass1Cfg, spike_bucket |-> k, b_spread |-> 2 * h ]
    /\ out = <<>>

\* Pass 1 runs on the scenario's overview
ScenRun ==
    /\ out = <<>>
    /\ out' = << build_pass1_from_overview(inp.overview_df, "m_1", inp.overview_cfg,
                                           inp.pass1_cfg, "key", FALSE, 0) >>
    /\ UNCHANGED <<inp, meta_files, art_files, clock, hist, procs>>

ScenNext == ScenRun

SpecScenario == ScenInit /\ [][ScenNext]_vars

\* the set of (start_bucket, end_bucket) of a result's windows
WindowSet(result) ==
    {<<result.windows[i].start_bucket, result.windows[i].end_bucket>> :
        i \in 1..Len(result.windows)}

\* C7: on the test's two-signal overview (signal_b constant inside every
\* bucket, its spike at bucket 50), Pass 1 returns exactly the windows
\* (20, 29) and (50, 50).
C7_ScenarioWindows ==
    (/\ out # <<>>
     /\ inp.spike_bucket = SpikeAt
     /\ inp.b_spread = 0
     /\ inp.overview_cfg.signals = <<"signal_a", "signal_b">>)
        => WindowSet(out[1]) = {<<FlatFrom, FlatTo>>, <<SpikeAt, SpikeAt>>}

\* the spike mask Pass 1 computes for a signal of the drawn overview
ScenSpikeMask(signal) ==
    SpikeMask(_mad_z(MeanDiffs(Column(SortByBucket(inp.overview_df.rows), signal, "mean"))),
              inp.pass1_cfg.spike_mad_z)

\* C8: for signal_b alone, its bucket means constant 0 but for one bucket k
\* at 100 (and no bucket flat), the spike test flags bucket k and no other
\* bucket, with a maximum |z| of at least spike_mad_z, and the window that
\* results is exactly (k, k).
C8_SpikeFlagsOneBucket ==
    (/\ out # <<>>
     /\ inp.b_spread > 0
     /\ inp.overview_cfg.signals = <<"signal_b">>)
        => /\ \A i \in 1..NBuckets :
                ScenSpikeMask("signal_b")[i] <=> (i - 1 = inp.spike_bucket)
           /\ out[1].per_signal["signal_b"].flagged_buckets = <<inp.spike_bucket>>
           /\ LET z == out[1].per_signal["signal_b"].spike_mad_z_max
              IN MadScale * z[1] >= inp.pass1_cfg.spike_mad_z * 100 * z[2]
           /\ WindowSet(out[1]) = {<<inp.spike_bucket, inp.spike_bucket>>}

----------------------------------------------------------------------------
(* The measurement store (store.py).  The files a caller can register are  *)
(* records [suffix, size, mtime, bytes, csv]: csv is what pd.read_csv      *)
(* makes of the file, [columns, rows], a row mapping each column to <<>>   *)
(* (NaN) or <<v>>; mtime is in hundredths of a second.  A file of the      *)
(* store is [text, mtime], its mtime a reading of the clock.               *)

DigitChars == <<"0", "1", "2", "3", "4", "5", "6", "7", "8", "9">>

\* str(n).encode() for n >= 0, one element per byte
RECURSIVE Digits(_)
Digits(n) ==
    IF n < 10 THEN <<DigitChars[n + 1]>>
    ELSE Digits(n \div 10) \o <<DigitChars[(n % 10) + 1]>>

\* the number of leading bytes sha256_file_signature reads (head_bytes,
\* 2_000_000 in the code), scaled to the files of the model
HeadBytes == 2

\* f.read(head_bytes)
ReadHead(bytes, head_bytes) ==
    SubSeq(bytes, 1, IF Len(bytes) < head_bytes THEN Len(bytes) ELSE head_bytes)

\* int(stat.st_mtime): the whole seconds of a modification time that is
\* held in hundredths of a second
WholeSeconds(mtime) == mtime \div 100

\* sha256_file_signature: the digest of str(size) + str(int(mtime)) + head
sha256_file_signature(file) ==
    Sha256(Digits(file.size) \o Digits(WholeSeconds(file.mtime))
             \o ReadHead(file.bytes, HeadBytes))

\* f"m_{fid[:12]}"; the 12-digit prefix is taken as collision-free
MeasurementId(fid) == <<"m_", fid>>

RECURSIVE JsonDumpsIndent(_)
RECURSIVE JsonDumpsIndentItems(_)
RECURSIVE JsonDumpsIndentElems(_)
\* the items of a dict, each value written in turn
JsonDumpsIndentItems(items) ==
    IF items = <<>> THEN <<>>
    ELSE <<PyStr(items[1][1]), Tok(":")>> \o JsonDumpsIndent(items[1][2])
         \o (IF Len(items) > 1 THEN <<Tok(",")>> ELSE <<>>)
         \o JsonDumpsIndentItems(Tail(items))
\* the elements of a list
JsonDumpsIndentElems(elems) ==
    IF elems = <<>> THEN <<>>
    ELSE JsonDumpsIndent(elems[1])
         \o (IF Len(elems) > 1 THEN <<Tok(",")>> ELSE <<>>)
         \o JsonDumpsIndentElems(Tail(elems))
\* json.dumps(obj, indent=2): every dict's items in insertion order
JsonDumpsIndent(obj) ==
    IF obj[1] = "dict"
        THEN <<Tok("{")>> \o JsonDumpsIndentItems(ItemsUnsorted(obj[2])) \o <<Tok("}")>>
    ELSE IF obj[1] = "list"
        THEN <<Tok("[")>> \o JsonDumpsIndentElems(obj[2]) \o <<Tok("]")>>
    ELSE IF obj = None THEN <<Tok("null")>>
    ELSE <<obj>>

\* whether a text is a complete JSON object of scalar items
IsJsonObject(text) ==
    /\ Len(text) >= 2
    /\ text[1] = Tok("{") /\ text[Len(text)] = Tok("}")
    /\ (Len(text) - 1) % 4 = 0
    /\ \A k \in 1..((Len(text) - 1) \div 4) :
          /\ text[4 * k - 2][1] = "str" /\ text[4 * k - 1] = Tok(":")
          /\ text[4 * k + 1] = Tok(IF 4 * k + 1 = Len(text) THEN "}" ELSE ",")

\* json.loads of such a text: key, ":", value, "," from the second token on
JsonLoads(text) ==
    PyDict([k \in 1..((Len(text) - 1) \div 4) |->
              << text[4 * k - 2][2],
                 IF text[4 * k] = Tok("null") THEN None ELSE text[4 * k] >>])

\* _extract_metadata for a file that is not MF4/MDF
_extract_metadata(file) ==
    PyDict(<< <<"format", PyStr(file.suffix)>>,
              <<"note", PyStr("minimal metadata in v0")>> >>)

\* meta.update({...}): the five items appended in the order of the literal
NewMeta(path, file, label, now) ==
    LET fid == sha256_file_signature(file)
    IN PyDict(_extract_metadata(file)[2] \o
              << <<"measurement_id", PyStr(MeasurementId(fid))>>,
                 <<"file_fingerprint", PyStr(fid)>>,
                 <<"path", PyStr(path)>>,
                 <<"label", label>>,
                 <<"created_at_unix", PyFloat(now)>> >>)

\* Path.write_text at time now
WriteText(files, name, text, now) ==
    [n \in DOMAIN files \cup {name} |->
        IF n = name THEN [text |-> text, mtime |-> now] ELSE files[n]]

\* the hex digits of a measurement id after "m_" (fid[:12]) and of a digest
IdPrefixLen == 12
HexDigestLen == 64

\* The characters element i of a file's text takes up.  A text that
\* json.dumps(meta, indent=2) wrote starts at the first element: "{" and ","
\* are followed by a newline and two blanks, ":" by a blank, "}" follows a
\* newline, a string has its two quotes, a float of whole seconds its ".0".
\* An element <<"rest", token, k>> is the last k characters of a token that
\* an earlier, longer text left behind.
DumpWidth(text, i) ==
    IF text[i][1] = "rest" THEN text[i][3]
    ELSE IF text[i] = Tok("{") \/ text[i] = Tok(",") THEN 4
    ELSE IF text[i] = Tok(":") \/ text[i] = Tok("}") THEN 2
    ELSE IF text[i] = Tok("null") THEN 4
    ELSE IF text[i][1] = "float" THEN Len(Digits(text[i][2])) + 2
    ELSE IF i % 4 = 0 /\ text[i - 2][2] = "measurement_id" THEN 2 + IdPrefixLen + 2
    ELSE IF i % 4 = 0 /\ text[i - 2][2] = "file_fingerprint" THEN HexDigestLen + 2
    ELSE Len(text[i][2]) + 2

\* the file after text is written from its first character on and the file
\* is closed: the characters the file held beyond the end of text stay
WriteAtStart(held, text) ==
    LET End[i \in 0..Len(held)] ==
            IF i = 0 THEN 0 ELSE End[i - 1] + DumpWidth(held, i)
        Width[i \in 0..Len(text)] ==
            IF i = 0 THEN 0 ELSE Width[i - 1] + DumpWidth(text, i)
        n == Width[Len(text)]
        Beyond(i) == End[i] > n
        left == SelectSeq(Indices(Len(held)), Beyond)
        Rest(i) == << "rest",
                      IF held[i][1] = "rest" THEN held[i][2] ELSE held[i],
                      IF End[i - 1] >= n THEN DumpWidth(held, i) ELSE End[i] - n >>
    IN text \o Tab([k \in 1..Len(left) |-> Rest(left[k])], Len(left))

\* the write and the close of a Path.write_text whose open, some steps
\* earlier, emptied the file: other writers may have written since
WriteTextClose(files, name, text, now) ==
    [n \in DOMAIN files |->
        IF n = name THEN [text |-> WriteAtStart(files[n].text, text), mtime |-> now]
                    ELSE files[n]]

\* the files a caller can name: a CSV of four samples 0.5 s apart, and a
\* file that is not a CSV
Disk ==
    [ p \in {"/data/a.csv", "/data/b.bin"} |->
        IF p = "/data/a.csv"
        THEN [ suffix |-> "csv", size |-> 64, mtime |-> 700, bytes |-> <<"t", "i", "m">>,
               csv |-> [ columns |-> <<"timestamp", "signal_a", "signal_b">>,
                         rows |-> << [timestamp |-> <<0>>, signal_a |-> <<200>>, signal_b |-> <<0>>],
                                     [timestamp |-> <<50>>, signal_a |-> <<400>>, signal_b |-> <<>>],
                                     [timestamp |-> <<100>>, signal_a |-> <<300>>, signal_b |-> <<100>>],
                                     [timestamp |-> <<150>>, signal_a |-> <<300>>, signal_b |-> <<300>>] >> ] ]
        ELSE [ suffix |-> "bin", size |-> 3, mtime |-> 900, bytes |-> <<"x", "y", "z">>,
               csv |-> None ] ]

\* a label test that rewrites the record whenever a label is supplied
LabelSupplied(stored, label) == label # None

\* if label is not None ... if meta.get("label") != label
NeedsLabelUpdate(stored, label) == label # None /\ DictGet(stored, "label") # label

\* add(path, label) run from start to end on the metadata files at time
\* now: [status, files, ref]
add(files, path, label, now) ==
    IF path \notin DOMAIN Disk THEN [status |-> "FileNotFoundError", files |-> files]
    ELSE
    LET fid == sha256_file_signature(Disk[path])
        mid == MeasurementId(fid)
        \* if not meta_path.exists(): write the new record
        created == IF mid \notin DOMAIN files
                      THEN WriteText(files, mid,
                                     JsonDumpsIndent(NewMeta(path, Disk[path], label, now)), now)
                      ELSE files
        \* if label is not None: read the record back, rewrite it on a new label
        stored == JsonLoads(created[mid].text)
        labelled == IF NeedsLabelUpdate(stored, label)
                       THEN WriteText(created, mid,
                                      JsonDumpsIndent(DictSet(stored, "label", label)), now)
                       ELSE created
    IN [ status |-> "ok", files |-> labelled,
         ref |-> [id |-> mid, path |-> path, label |-> label] ]

\* meta(measurement_id): [status] or [status, meta]
meta(files, measurement_id) ==
    IF measurement_id \notin DOMAIN files THEN [status |-> "KeyError"]
    ELSE [status |-> "ok", meta |-> JsonLoads(files[measurement_id].text)]

\* cache_path(measurement_id, kind, key, suffix)
cache_path(measurement_id, kind, key, suffix) == <<measurement_id, kind, key, suffix>>

\* the parquet file to_parquet writes: the magic bytes, the row groups and
\* the footer that closes the file
ToParquet(table) == <<"PAR1", table, "PAR1">>

\* whether a parquet file was written to its end
IsCompleteParquet(bytes) == Len(bytes) = 3

\* pd.read_parquet of a complete file
ReadParquet(bytes) == bytes[2]

\* the file a writer leaves when it stops after the magic bytes and the row
\* groups, before the footer
PartialParquet(table) == <<"PAR1", table>>

RECURSIVE SumSeq(_)
SumSeq(s) == IF s = <<>> THEN 0 ELSE s[1] + SumSeq(Tail(s))

\* min / mean / max of the values of a group that are not NaN, NaN when
\* there is none; the mean is exact for the files of the model, whose group
\* sums are multiples of the group sizes
Aggregate(stat, values) ==
    LET IsValue(v) == v # <<>>
        present == SelectSeq(values, IsValue)
        nums == Tab([k \in 1..Len(present) |-> present[k][1]], Len(present))
    IN IF nums = <<>> THEN <<>>
       ELSE IF stat = "min" THEN <<KthSmallest(nums, 1)>>
       ELSE IF stat = "max" THEN <<KthSmallest(nums, Len(nums))>>
       ELSE <<SumSeq(nums) \div Len(nums)>>

\* the seconds of row i: the time column when the file has it, else the
\* row index
RowSeconds(csv, time_col, i) ==
    IF time_col \in Range(csv.columns) THEN csv.rows[i][time_col] ELSE <<(i - 1) * 100>>

\* (seconds * hz).floordiv(1), hz in hundredths; <<>> is <NA>
BucketIndex(seconds, hz) ==
    IF seconds = <<>> THEN <<>> ELSE <<(seconds[1] * hz) \div 10000>>

\* signals_list when signals is None: every column but time_col and bucket
DefaultSignals(csv, time_col) ==
    LET IsSignal(c) == c \notin {time_col, "bucket"}
    IN SelectSeq(csv.columns, IsSignal)

\* the grouped table: one row per occupied bucket in ascending order, its
\* time bucket / hz, and per signal the aggregates of agg_list
GroupByBucket(csv, signals_list, hz, agg_list, time_col) ==
    LET n == Len(csv.rows)
        bucket_index == Tab([i \in 1..n |-> BucketIndex(RowSeconds(csv, time_col, i), hz)], n)
        IsNew(i) == /\ bucket_index[i] # <<>>
                    /\ \A j \in 1..(i - 1) : bucket_index[j] # bucket_index[i]
        firsts == SelectSeq(Indices(n), IsNew)
        unsorted == Tab([k \in 1..Len(firsts) |-> bucket_index[firsts[k]][1]], Len(firsts))
        buckets == StableSort(unsorted,
                              [a \in 1..Len(unsorted) |-> [b \in 1..Len(unsorted) |->
                                    unsorted[a] < unsorted[b]]])
        Group(b, sg) ==
            LET InBucket(i) == bucket_index[i] = <<b>>
                members == SelectSeq(Indices(n), InBucket)
            IN Tab([k \in 1..Len(members) |-> csv.rows[members[k]][sg]], Len(members))
    IN [ columns |-> {<<sg, st>> : sg \in Range(signals_list), st \in Range(agg_list)},
         rows |-> Tab([k \in 1..Len(buckets) |->
                         [ bucket |-> buckets[k],
                           time |-> <<(buckets[k] * 10000) \div hz>>,
                           cells |-> [sg \in Range(signals_list) |->
                                        [st \in Range(agg_list) |->
                                            Aggregate(st, Group(buckets[k], sg))]] ]],
                      Len(buckets)) ]

\* the config dict of build_overview
OverviewConfig(measurement_id, signals, hz, agg, time_col) ==
    PyDict(<< <<"measurement_id", PyStr(measurement_id)>>,
              <<"signals", IF signals = None THEN None
                           ELSE PyList(Tab([k \in 1..Len(signals) |-> PyStr(signals[k])],
                                           Len(signals)))>>,
              <<"hz", PyFloat(hz)>>,
              <<"agg", PyList(Tab([k \in 1..Len(agg) |-> PyStr(agg[k])], Len(agg)))>>,
              <<"time_col", PyStr(time_col)>> >>)

\* an existence test that never finds the artifact
NeverExists(files, path) == FALSE

\* out_path.exists()
Exists(files, path) == path \in DOMAIN files

\* build_overview run from start to end at time now: [status, files] or
\* [status, files, result]
build_overview(metas, files, measurement_id, signals, hz, agg, time_col, now) ==
    IF hz <= 0 THEN [status |-> "ValueError", files |-> files]
    ELSE IF meta(metas, measurement_id).status # "ok"
        THEN [status |-> "KeyError", files |-> files]
    ELSE
    LET path == DictGet(meta(metas, measurement_id).meta, "path")[2]
        config == OverviewConfig(measurement_id, signals, hz, agg, time_col)
        key == config_key(config)
        out_path == cache_path(measurement_id, "overview", key, ".parquet")
    IN IF Disk[path].suffix # "csv" THEN [status |-> "ValueError", files |-> files]
       ELSE IF Exists(files, out_path)
          THEN [ status |-> "ok", files |-> files,
                 result |-> [path |-> out_path, cache_hit |-> TRUE,
                             config |-> config, key |-> key] ]
       ELSE
       LET csv == Disk[path].csv
           signals_list == IF signals = None THEN DefaultSignals(csv, time_col) ELSE signals
       IN IF \E k \in 1..Len(signals_list) : signals_list[k] \notin Range(csv.columns)
             THEN [status |-> "KeyError", files |-> files]
          ELSE [ status |-> "ok",
                 files |-> WriteText(files, out_path,
                              ToParquet(GroupByBucket(csv, signals_list, hz, agg, time_col)),
                              now),
                 result |-> [path |-> out_path, cache_hit |-> FALSE,
                             config |-> config, key |-> key] ]

\* load_overview with a config dict: [status] or [status, table]
load_overview(files, measurement_id, config) ==
    LET path == cache_path(measurement_id, "overview", config_key(config), ".parquet")
    IN IF ~Exists(files, path) THEN [status |-> "FileNotFoundError"]
       ELSE IF ~IsCompleteParquet(files[path].text) THEN [status |-> "ArrowInvalid"]
       ELSE [status |-> "ok", table |-> ReadParquet(files[path].text)]

----------------------------------------------------------------------------
(* SpecAdd and SpecOverview: one caller at a time registers files         *)
(* (SpecAdd, with and without labels) and builds and loads overviews of    *)
(* the registered files (SpecOverview), each call running from start to    *)
(* end, while time passes                                                  *)

\* the latest time.time(), in ticks
MaxClock == 2

StorePaths == DOMAIN Disk \cup {"/data/none.csv"}

StoreLabels == {None, PyStr("x"), PyStr("y")}

\* the ids add gives to the files of Disk
StoreIds == {MeasurementId(sha256_file_signature(Disk[p])) : p \in DOMAIN Disk}

\* the <<signals, hz>> callers ask overviews for: two that can be built, a
\* signal the file does not have, and a rate that is not positive
StoreConfigs ==
    { <<None, 100>>, <<<<"signal_a">>, 200>>, <<<<"signal_x">>, 100>>, <<None, 0>> }

DefaultAgg == <<"min", "mean", "max">>

\* hist remembers what add first returned for a path and what
\* build_overview and run_pass1 first returned for their arguments
StoreInit ==
    /\ meta_files = <<>> /\ art_files = <<>> /\ clock = 0
    /\ hist = [ids |-> <<>>, builds |-> <<>>, runs |-> <<>>]
    /\ procs = <<>> /\ inp = <<>> /\ out = <<>>

Remember(f, k, v) == IF k \in DOMAIN f THEN f ELSE [x \in DOMAIN f \cup {k} |-> IF x = k THEN v ELSE f[x]]

Tick ==
    /\ clock < MaxClock
    /\ clock' = clock + 1
    /\ UNCHANGED <<meta_files, art_files, hist, procs, inp, out>>

Add(path, label) ==
    LET r == add(meta_files, path, label, clock)
    IN /\ meta_files' = r.files
       /\ out' = << [op |-> "add", path |-> path, label |-> label, status |-> r.status,
                     ret |-> IF r.status = "ok" THEN r.ref ELSE None] >>
       /\ hist' = IF r.status = "ok"
                     THEN [hist EXCEPT !.ids = Remember(hist.ids, path, r.ref.id)]
                     ELSE hist
       /\ UNCHANGED <<art_files, clock, procs, inp>>

BuildOverview(measurement_id, signals, hz) ==
    LET r == build_overview(meta_files, art_files, measurement_id, signals, hz,
                            DefaultAgg, "timestamp", clock)
    IN /\ art_files' = r.files
       /\ out' = << [op |-> "build_overview", measurement_id |-> measurement_id,
                     signals |-> signals, hz |-> hz, status |-> r.status,
                     ret |-> IF r.status = "ok" THEN r.result ELSE None] >>
       /\ hist' = IF r.status = "ok"
                     THEN [hist EXCEPT !.builds =
                              Remember(hist.builds, <<measurement_id, signals, hz>>, r.result)]
                     ELSE hist
       /\ UNCHANGED <<meta_files, clock, procs, inp>>

LoadOverview(measurement_id, signals, hz) ==
    LET r == load_overview(art_files, measurement_id,
                           OverviewConfig(measurement_id, signals, hz, DefaultAgg, "timestamp"))
    IN /\ out' = << [op |-> "load_overview", measurement_id |-> measurement_id,
                     signals |-> signals, hz |-> hz, status |-> r.status,
                     ret |-> IF r.status = "ok" THEN r.table ELSE None] >>
       /\ UNCHANGED <<meta_files, art_files, clock, hist, procs, inp>>

AddNext ==
    \/ Tick
    \/ \E path \in StorePaths : \E label \in StoreLabels : Add(path, label)

SpecAdd == StoreInit /\ [][AddNext]_vars

OverviewNext ==
    \/ Tick
    \/ \E path \in StorePaths : Add(path, None)
    \/ \E id \in StoreIds : \E c \in StoreConfigs : BuildOverview(id, c[1], c[2])
    \/ \E id \in StoreIds : \E c \in StoreConfigs : LoadOverview(id, c[1], c[2])

SpecOverview == StoreInit /\ [][OverviewNext]_vars

\* the record stored for a measurement id
StoredMeta(files, id) == JsonLoads(files[id].text)

\* C2: every add of a file returns the id its first add returned; that id
\* has exactly one metadata record; a record that existed before the call
\* keeps every field but label; the call writes nothing when it supplies no
\* label or the stored one, and otherwise changes the label alone.
C2_AddIdempotent ==
    [][ \A path \in StorePaths : \A label \in StoreLabels :
          (/\ out' # <<>> /\ out'[1].op = "add" /\ out'[1].status = "ok"
           /\ out'[1].path = path /\ out'[1].label = label
           /\ Add(path, label)) =>
             LET id == out'[1].ret.id
             IN /\ path \in DOMAIN hist.ids => id = hist.ids[path]
                /\ id \in DOMAIN meta_files'
                /\ IsJsonObject(meta_files'[id].text)
                /\ Cardinality({m \in DOMAIN meta_files' :
                       DictGet(StoredMeta(meta_files', m), "measurement_id") = PyStr(id)}) = 1
                /\ \A m \in DOMAIN meta_files \ {id} :
                       m \in DOMAIN meta_files' /\ meta_files'[m] = meta_files[m]
                /\ id \in DOMAIN meta_files =>
                      LET old == StoredMeta(meta_files, id)
                          new == StoredMeta(meta_files', id)
                      IN /\ DictKeys(new) = DictKeys(old)
                         /\ \A k \in DictKeys(old) \ {"label"} :
                               DictGet(new, k) = DictGet(old, k)
                         /\ (label = None \/ label = DictGet(old, "label"))
                               => meta_files' = meta_files
                         /\ (label # None /\ label # DictGet(old, "label"))
                               => DictGet(new, "label") = label
      ]_vars

\* C2 witness: an add that supplied the label "y" long after the file was
\* first registered has returned; the record carries that label and the
\* creation time of the first registration
C2_Witness ==
    /\ out # <<>> /\ out[1].op = "add" /\ out[1].status = "ok"
    /\ out[1].label = PyStr("y")
    /\ LET stored == StoredMeta(meta_files, out[1].ret.id)
       IN /\ DictGet(stored, "label") = PyStr("y")
          /\ DictGet(stored, "created_at_unix") = PyFloat(0)
          /\ DictGet(stored, "path") = PyStr(out[1].path)
    /\ meta_files[out[1].ret.id].mtime = MaxClock
    /\ hist.ids[out[1].path] = out[1].ret.id

\* the path build_overview derives from its arguments
OverviewPath(id, signals, hz) ==
    cache_path(id, "overview",
               config_key(OverviewConfig(id, signals, hz, DefaultAgg, "timestamp")),
               ".parquet")

\* C1: a build_overview call that returns reports cache_hit exactly when
\* the artifact of its configuration existed before the call; the first
\* call for a configuration reports a miss and creates the artifact; every
\* later call reports a hit with the path and key of the first; and a hit
\* leaves the artifact files as they were.
C1_CacheHitIffArtifactExists ==
    [][ \A id \in StoreIds : \A c \in StoreConfigs :
          (/\ out' # <<>> /\ out'[1].op = "build_overview" /\ out'[1].status = "ok"
           /\ out'[1].measurement_id = id /\ out'[1].signals = c[1] /\ out'[1].hz = c[2]
           /\ BuildOverview(id, c[1], c[2])) =>
             LET r == out'[1].ret
                 path == OverviewPath(id, c[1], c[2])
                 call == <<id, c[1], c[2]>>
             IN /\ r.cache_hit <=> path \in DOMAIN art_files
                /\ r.path = path
                /\ call \notin DOMAIN hist.builds =>
                      /\ ~r.cache_hit
                      /\ path \in DOMAIN art_files'
                      /\ IsCompleteParquet(art_files'[path].text)
                /\ call \in DOMAIN hist.builds =>
                      /\ r.cache_hit
                      /\ r.path = hist.builds[call].path
                      /\ r.key = hist.builds[call].key
                /\ r.cache_hit => art_files' = art_files
                /\ \A q \in DOMAIN art_files \ {path} :
                      q \in DOMAIN art_files' /\ art_files'[q] = art_files[q]
      ]_vars

\* C1 witness: a build_overview call has returned a cache hit for a
\* configuration whose first call was a miss, after time has passed since
\* the artifact was written, while the artifact of another configuration
\* exists beside it
C1_Witness ==
    /\ out # <<>> /\ out[1].op = "build_overview" /\ out[1].status = "ok"
    /\ out[1].ret.cache_hit
    /\ LET call == <<out[1].measurement_id, out[1].signals, out[1].hz>>
       IN /\ call \in DOMAIN hist.builds
          /\ ~hist.builds[call].cache_hit
          /\ hist.builds[call].path = out[1].ret.path
    /\ art_files[out[1].ret.path].mtime < clock
    /\ Cardinality(DOMAIN art_files) = 2

----------------------------------------------------------------------------
(* SpecRun: run_pass1, the cached Pass 1.  The store of this repository    *)
(* has no such method (the test calls store.run_autopsy_pass1); it is      *)
(* modelled from the specification: the key is config_key of              *)
(* (measurement_id, overview_cfg, pass1_cfg), a persisted result is        *)
(* returned verbatim with cache_hit = true, and otherwise the result is    *)
(* computed from the overview, persisted and returned.                     *)

\* a cfg record as the dict a caller passes
OverviewCfgDict(cfg) ==
    PyDict(<< <<"signals", IF cfg.signals = None THEN None
                           ELSE PyList(Tab([k \in 1..Len(cfg.signals) |-> PyStr(cfg.signals[k])],
                                           Len(cfg.signals)))>>,
              <<"hz", PyFloat(cfg.hz)>>,
              <<"agg", PyList(Tab([k \in 1..Len(cfg.agg) |-> PyStr(cfg.agg[k])], Len(cfg.agg)))>>,
              <<"time_col", PyStr(cfg.time_col)>> >>)

Pass1CfgDict(cfg) ==
    PyDict(<< <<"missing_rate", PyFloat(cfg.missing_rate)>>,
              <<"flatline_eps", PyFloat(cfg.flatline_eps)>>,
              <<"flatline_min_run", PyInt(cfg.flatline_min_run)>>,
              <<"spike_mad_z", PyFloat(cfg.spike_mad_z)>>,
              <<"top_k_windows", PyInt(cfg.top_k_windows)>>,
              <<"top_n_signals", PyInt(cfg.top_n_signals)>> >>)

\* the key of a Pass 1 result
Pass1Key(measurement_id, overview_cfg, pass1_cfg) ==
    config_key(PyDict(<< <<"measurement_id", PyStr(measurement_id)>>,
                         <<"overview_cfg", OverviewCfgDict(overview_cfg)>>,
                         <<"pass1_cfg", Pass1CfgDict(pass1_cfg)>> >>))

\* dataclasses.asdict of an AutopsyResultPass1 (pass1.py 9-22): the fields
\* in the order of the class, every dict in the order build_pass1_from_overview
\* fills it (per_signal in the order of the signals it loops over)
asdict(result) ==
    LET \* a set of names in ascending order, as sorted() leaves them (95)
        SortedNames(names) ==
            LET F[S \in SUBSET names] ==
                    IF S = {} THEN <<>>
                    ELSE LET least == CHOOSE x \in S : \A y \in S \ {x} : StrLt(x, y)
                         IN <<least>> \o F[S \ {least}]
            IN F[names]
        PyIntList(s) == PyList(Tab([k \in 1..Len(s) |-> PyInt(s[k])], Len(s)))
        signals == IF result.overview_cfg.signals = None
                      THEN SortedNames(DOMAIN result.per_signal)
                      ELSE result.overview_cfg.signals
        Stats(s) ==
            PyDict(<< <<"missing_rate", PyFloat(s.missing_rate)>>,
                      <<"missing_rate_flagged", PyBool(s.missing_rate_flagged)>>,
                      <<"flatline_run_count", PyInt(s.flatline_run_count)>>,
                      <<"flatline_max_run", PyInt(s.flatline_max_run)>>,
                      <<"spike_mad_z_max", PyFloat(s.spike_mad_z_max)>>,
                      <<"flagged_bucket_count", PyInt(s.flagged_bucket_count)>>,
                      <<"flagged_buckets", PyIntList(s.flagged_buckets)>> >>)
        Score(s) ==
            PyDict(<< <<"signal", PyStr(s.signal)>>,
                      <<"flagged_bucket_count", PyInt(s.flagged_bucket_count)>>,
                      <<"spike_mad_z_max", PyFloat(s.spike_mad_z_max)>>,
                      <<"score", PyFloat(s.score)>> >>)
        Window(w) ==
            PyDict(<< <<"start_bucket", PyInt(w.start_bucket)>>,
                      <<"end_bucket", PyInt(w.end_bucket)>>,
                      <<"start_time", PyFloat(w.start_time)>>,
                      <<"end_time", PyFloat(w.end_time)>>,
                      <<"duration_buckets", PyInt(w.duration_buckets)>>,
                      <<"score", PyFloat(w.score)>>,
                      <<"signals", PyList(Tab([k \in 1..Len(w.signals) |-> Score(w.signals[k])],
                                              Len(w.signals)))>> >>)
        checks == result.timestamp_checks
    IN PyDict(<< <<"measurement_id", PyStr(result.measurement_id)>>,
                 <<"overview_cfg", OverviewCfgDict(result.overview_cfg)>>,
                 <<"pass1_cfg", Pass1CfgDict(result.pass1_cfg)>>,
                 <<"key", PyStr(result.key)>>,
                 <<"created_at_unix", PyFloat(result.created_at_unix)>>,
                 <<"per_signal",
                   PyDict(Tab([k \in 1..Len(signals) |->
                                 <<signals[k], Stats(result.per_signal[signals[k]])>>],
                              Len(signals)))>>,
                 <<"timestamp_checks",
                   PyDict(<< <<"monotonic", PyBool(checks.monotonic)>>,
                             <<"gap_count", PyInt(checks.gap_count)>>,
                             <<"gap_indices", PyIntList(checks.gap_indices)>>,
                             <<"expected_gap_seconds", PyFloat(checks.expected_gap_seconds)>> >>)>>,
                 <<"windows", PyList(Tab([k \in 1..Len(result.windows) |->
                                             Window(result.windows[k])],
                                         Len(result.windows)))>>,
                 <<"cache_hit", PyBool(result.cache_hit)>> >>)

\* AutopsyResultPass1.to_json: json.dumps(asdict(self), indent=2)
to_json(result) == JsonDumpsIndent(asdict(result))

RECURSIVE JsonParseValue(_, _)
RECURSIVE JsonParseItems(_, _, _)
RECURSIVE JsonParseElems(_, _, _)
\* the items of an object from position i on, up to its "}"; items are the
\* ones read so far.  Like the two below it gives <<value, next position>>.
JsonParseItems(text, i, items) ==
    IF text[i] = Tok("}") THEN <<PyDict(items), i + 1>>
    ELSE CHOOSE r \in
            { JsonParseItems(text,
                             IF text[v[2]] = Tok(",") THEN v[2] + 1 ELSE v[2],
                             Append(items, <<text[i][2], v[1]>>)) :
                v \in { JsonParseValue(text, i + 2) } } : TRUE
\* the elements of an array from position i on, up to its "]"
JsonParseElems(text, i, elems) ==
    IF text[i] = Tok("]") THEN <<PyList(elems), i + 1>>
    ELSE CHOOSE r \in
            { JsonParseElems(text,
                             IF text[v[2]] = Tok(",") THEN v[2] + 1 ELSE v[2],
                             Append(elems, v[1])) :
                v \in { JsonParseValue(text, i) } } : TRUE
\* the value that starts at position i
JsonParseValue(text, i) ==
    IF text[i] = Tok("{") THEN JsonParseItems(text, i + 1, <<>>)
    ELSE IF text[i] = Tok("[") THEN JsonParseElems(text, i + 1, <<>>)
    ELSE IF text[i] = Tok("null") THEN <<None, i + 1>>
    ELSE <<text[i], i + 1>>

\* json.loads of the text of a persisted result
JsonLoadsResult(text) == JsonParseValue(text, 1)[1]

\* run_pass1 run from start to end at time now: [status, files] or
\* [status, files, result], the result a dict as the test reads it
\* (first["key"], second["cache_hit"]).  Each stage is computed once and
\* handed on as a value (the one element of a set).
run_pass1(metas, files, measurement_id, overview_cfg, pass1_cfg, now) ==
    LET key == Pass1Key(measurement_id, overview_cfg, pass1_cfg)
        path == cache_path(measurement_id, "autopsy_pass1", key, ".json")
        Persist(built, result) ==
            IF result.status # "ok" THEN [status |-> result.status, files |-> built.files]
            ELSE [ status |-> "ok",
                   files |-> WriteText(built.files, path, to_json(result), now),
                   result |-> asdict(result) ]
        Scan(built, loaded) ==
            IF loaded.status # "ok" THEN [status |-> loaded.status, files |-> built.files]
            ELSE CHOOSE r \in { Persist(built, x) :
                                  x \in { build_pass1_from_overview(loaded.table, measurement_id,
                                              overview_cfg, pass1_cfg, key, FALSE, now) } } : TRUE
        Load(built) ==
            IF built.status # "ok" THEN [status |-> built.status, files |-> built.files]
            ELSE CHOOSE r \in { Scan(built, x) :
                                  x \in { load_overview(built.files, measurement_id,
                                                        built.result.config) } } : TRUE
    IN IF Exists(files, path)
          THEN [ status |-> "ok", files |-> files,
                 result |-> DictSet(JsonLoadsResult(files[path].text),
                                    "cache_hit", PyBool(TRUE)) ]
       ELSE CHOOSE r \in { Load(x) :
                             x \in { build_overview(metas, files, measurement_id,
                                         overview_cfg.signals, overview_cfg.hz, overview_cfg.agg,
                                         overview_cfg.time_col, now) } } : TRUE

RunOverviewCfg(signals, hz) ==
    [signals |-> signals, hz |-> hz, agg |-> DefaultAgg, time_col |-> "timestamp"]

RunPass1Cfg(min_run) ==
    [ missing_rate |-> 10, flatline_eps |-> 1, flatline_min_run |-> min_run,
      spike_mad_z |-> 500, top_k_windows |-> 5, top_n_signals |-> 2 ]

\* the <<overview_cfg, pass1_cfg>> callers run Pass 1 with: one overview
\* under two detection configurations, and a signal the file does not have
RunConfigs ==
    { <<RunOverviewCfg(None, 100), RunPass1Cfg(1)>>,
      <<RunOverviewCfg(None, 100), RunPass1Cfg(2)>>,
      <<RunOverviewCfg(<<"signal_x">>, 100), RunPass1Cfg(1)>> }

RunPass1(measurement_id, overview_cfg, pass1_cfg) ==
    \E r \in {run_pass1(meta_files, art_files, measurement_id, overview_cfg, pass1_cfg, clock)} :
       /\ art_files' = r.files
       /\ out' = << [op |-> "run_pass1", measurement_id |-> measurement_id,
                     overview_cfg |-> overview_cfg, pass1_cfg |-> pass1_cfg,
                     status |-> r.status,
                     ret |-> IF r.status = "ok" THEN r.result ELSE None] >>
       /\ hist' = IF r.status = "ok"
                     THEN [hist EXCEPT !.runs =
                              Remember(hist.runs, <<measurement_id, overview_cfg, pass1_cfg>>,
                                       r.result)]
                     ELSE hist
       /\ UNCHANGED <<meta_files, clock, procs, inp>>

RunNext ==
    \/ Tick
    \/ Add("/data/a.csv", None)
    \/ \E id \in StoreIds : \E c \in RunConfigs : RunPass1(id, c[1], c[2])

SpecRun == StoreInit /\ [][RunNext]_vars

----------------------------------------------------------------------------
(* SpecConc: two producers work on one store at the same time.  Each call  *)
(* is cut where it touches the file system: an existence test, a read, the *)
(* opening of a file for writing (which creates or truncates it), and the  *)
(* end of the write.  Both producers name the file /data/a.csv and the     *)
(* default overview configuration.  A producer may be killed while it      *)
(* writes an artifact.                                                     *)

Procs == {1, 2}

\* the most calls a producer makes
MaxCalls == 2

ConcPath == "/data/a.csv"

ConcId == MeasurementId(sha256_file_signature(Disk[ConcPath]))

ConcOverviewPath == OverviewPath(ConcId, None, 100)

ConcTable == GroupByBucket(Disk[ConcPath].csv, DefaultSignals(Disk[ConcPath].csv, "timestamp"), 100, DefaultAgg, "timestamp")

ConcCalls ==
    { [op |-> "add", label |-> None], [op |-> "add", label |-> PyStr("x")],
      [op |-> "build_overview", label |-> None], [op |-> "load_overview", label |-> None] }

\* what a call gave back: complete tells whether the artifact a cache hit
\* or a load refers to was completely written when the call read it
Returned(op, status, cache_hit, complete) ==
    [op |-> op, status |-> status, cache_hit |-> cache_hit, complete |-> complete]

\* a producer that has not returned from a call
NotReturned == Returned("none", "none", FALSE, FALSE)

\* hist remembers the first record completely written for a measurement id
ConcInit ==
    /\ meta_files = <<>> /\ art_files = <<>> /\ clock = 0
    /\ hist = <<>>
    /\ procs = [p \in Procs |->
                  [pc |-> "idle", op |-> "none", label |-> None, loc |-> None,
                   ret |-> NotReturned, calls |-> 0]]
    /\ inp = <<>> /\ out = <<>>

ConcTick ==
    /\ clock < MaxClock
    /\ clock' = clock + 1
    /\ UNCHANGED <<meta_files, art_files, hist, procs, inp, out>>

\* p's call returns or raises
Return(p, ret) == [procs EXCEPT ![p].pc = "idle", ![p].loc = None, ![p].ret = ret]

Goto(p, pc) == [procs EXCEPT ![p].pc = pc]

\* a producer starts a call; add has resolved the path, found the file and
\* computed the id when it reaches its existence test
Start(p, call) ==
    /\ procs[p].pc = "idle" /\ procs[p].calls < MaxCalls
    /\ procs' = [procs EXCEPT ![p] =
                    [ pc |-> IF call.op = "add" THEN "a_check"
                             ELSE IF call.op = "build_overview" THEN "b_start"
                             ELSE "l_check",
                      op |-> call.op, label |-> call.label, loc |-> None,
                      ret |-> NotReturned, calls |-> procs[p].calls + 1 ]]
    /\ UNCHANGED <<meta_files, art_files, clock, hist, inp, out>>

\* add: the test `if not meta_path.exists()`
AddCheck(p) ==
    /\ procs[p].pc = "a_check"
    /\ procs' = IF ~Exists(meta_files, ConcId) THEN Goto(p, "a_build")
                                               ELSE Goto(p, "a_label")
    /\ UNCHANGED <<meta_files, art_files, clock, hist, inp, out>>

\* add: the record is built, with time.time() read now
AddBuild(p) ==
    /\ procs[p].pc = "a_build"
    /\ procs' = [procs EXCEPT ![p].pc = "a_open",
                              ![p].loc = NewMeta(ConcPath, Disk[ConcPath],
                                                 procs[p].label, clock)]
    /\ UNCHANGED <<meta_files, art_files, clock, hist, inp, out>>

\* add: write_text opens the metadata file, which creates or empties it
AddCreateOpen(p) ==
    /\ procs[p].pc = "a_open"
    /\ meta_files' = WriteText(meta_files, ConcId, <<>>, clock)
    /\ procs' = Goto(p, "a_write")
    /\ UNCHANGED <<art_files, clock, hist, inp, out>>

\* add: write_text writes the record and closes the file
AddCreateWrite(p) ==
    /\ procs[p].pc = "a_write"
    /\ meta_files' = WriteTextClose(meta_files, ConcId, JsonDumpsIndent(procs[p].loc), clock)
    /\ hist' = Remember(hist, ConcId, procs[p].loc)
    /\ procs' = Goto(p, "a_label")
    /\ UNCHANGED <<art_files, clock, inp, out>>

\* add: if label is not None, read the record and compare its label
AddLabel(p) ==
    /\ procs[p].pc = "a_label"
    /\ procs' =
         IF procs[p].label = None THEN Return(p, Returned("add", "ok", FALSE, FALSE))
         ELSE IF ~IsJsonObject(meta_files[ConcId].text)
            THEN Return(p, Returned("add", "JSONDecodeError", FALSE, FALSE))
         ELSE IF NeedsLabelUpdate(JsonLoads(meta_files[ConcId].text), procs[p].label)
            THEN [procs EXCEPT ![p].pc = "r_open",
                               ![p].loc = DictSet(JsonLoads(meta_files[ConcId].text),
                                                  "label", procs[p].label)]
         ELSE Return(p, Returned("add", "ok", FALSE, FALSE))
    /\ UNCHANGED <<meta_files, art_files, clock, hist, inp, out>>

\* add: the second write_text opens the metadata file
AddRelabelOpen(p) ==
    /\ procs[p].pc = "r_open"
    /\ meta_files' = WriteText(meta_files, ConcId, <<>>, clock)
    /\ procs' = Goto(p, "r_write")
    /\ UNCHANGED <<art_files, clock, hist, inp, out>>

\* add: the second write_text writes the relabelled record
AddRelabelWrite(p) ==
    /\ procs[p].pc = "r_write"
    /\ meta_files' = WriteTextClose(meta_files, ConcId, JsonDumpsIndent(procs[p].loc), clock)
    /\ procs' = Return(p, Returned("add", "ok", FALSE, FALSE))
    /\ UNCHANGED <<art_files, clock, hist, inp, out>>

\* build_overview: hz is positive; meta() tests whether the record exists
BuildStart(p) ==
    /\ procs[p].pc = "b_start"
    /\ procs' =
         IF ~Exists(meta_files, ConcId)
            THEN Return(p, Returned("build_overview", "KeyError", FALSE, FALSE))
            ELSE Goto(p, "b_meta")
    /\ UNCHANGED <<meta_files, art_files, clock, hist, inp, out>>

\* build_overview: meta() reads and parses the record; the path is a CSV
BuildMeta(p) ==
    /\ procs[p].pc = "b_meta"
    /\ procs' =
         IF ~IsJsonObject(meta_files[ConcId].text)
            THEN Return(p, Returned("build_overview", "JSONDecodeError", FALSE, FALSE))
            ELSE Goto(p, "b_check")
    /\ UNCHANGED <<meta_files, art_files, clock, hist, inp, out>>

\* build_overview: if out_path.exists(), return the cache hit
BuildCheck(p) ==
    /\ procs[p].pc = "b_check"
    /\ procs' =
         IF Exists(art_files, ConcOverviewPath)
            THEN Return(p, Returned("build_overview", "ok", TRUE,
                                    IsCompleteParquet(art_files[ConcOverviewPath].text)))
            ELSE Goto(p, "b_open")
    /\ UNCHANGED <<meta_files, art_files, clock, hist, inp, out>>

\* build_overview: to_parquet opens out_path and writes the row groups
BuildOpen(p) ==
    /\ procs[p].pc = "b_open"
    /\ art_files' = WriteText(art_files, ConcOverviewPath, PartialParquet(ConcTable), clock)
    /\ procs' = Goto(p, "b_write")
    /\ UNCHANGED <<meta_files, clock, hist, inp, out>>

\* build_overview: to_parquet writes the footer and closes the file
BuildWrite(p) ==
    /\ procs[p].pc = "b_write"
    /\ art_files' = WriteText(art_files, ConcOverviewPath, ToParquet(ConcTable), clock)
    /\ procs' = Return(p, Returned("build_overview", "ok", FALSE, TRUE))
    /\ UNCHANGED <<meta_files, clock, hist, inp, out>>

\* the producer is killed before to_parquet has finished
BuildAbandon(p) ==
    /\ procs[p].pc = "b_write"
    /\ procs' = Goto(p, "dead")
    /\ UNCHANGED <<meta_files, art_files, clock, hist, inp, out>>

\* load_overview: if not path.exists(), FileNotFoundError
LoadCheck(p) ==
    /\ procs[p].pc = "l_check"
    /\ procs' =
         IF ~Exists(art_files, ConcOverviewPath)
            THEN Return(p, Returned("load_overview", "FileNotFoundError", FALSE, FALSE))
            ELSE Goto(p, "l_read")
    /\ UNCHANGED <<meta_files, art_files, clock, hist, inp, out>>

\* load_overview: pd.read_parquet, which fails on a file without its footer
LoadRead(p) ==
    /\ procs[p].pc = "l_read"
    /\ procs' =
         IF IsCompleteParquet(art_files[ConcOverviewPath].text)
            THEN Return(p, Returned("load_overview", "ok", FALSE, TRUE))
            ELSE Return(p, Returned("load_overview", "ArrowInvalid", FALSE, FALSE))
    /\ UNCHANGED <<meta_files, art_files, clock, hist, inp, out>>

ConcNext ==
    \/ ConcTick
    \/ \E p \in Procs :
         \/ \E call \in ConcCalls : Start(p, call)
         \/ AddCheck(p)
         \/ AddBuild(p)
         \/ AddCreateOpen(p)
         \/ AddCreateWrite(p)
         \/ AddLabel(p)
         \/ AddRelabelOpen(p)
         \/ AddRelabelWrite(p)
         \/ BuildStart(p)
         \/ BuildMeta(p)
         \/ BuildCheck(p)
         \/ BuildOpen(p)
         \/ BuildWrite(p)
         \/ BuildAbandon(p)
         \/ LoadCheck(p)
         \/ LoadRead(p)

SpecConc == ConcInit /\ [][ConcNext]_vars

\* C3: a build_overview call reports a cache hit, and a load_overview call
\* succeeds, only for an artifact that was completely written when the
\* call looked at it.
C3_NoHitOnIncompleteArtifact ==
    \A p \in Procs :
       (procs[p].ret.status = "ok"
          /\ (procs[p].ret.cache_hit \/ procs[p].ret.op = "load_overview"))
       => procs[p].ret.complete

\* C4: with two producers adding the same file, every add succeeds, and
\* whenever no write of the metadata file is under way the record is
\* complete and its fields other than label are those of the first record
\* that was written.
C4_ConcurrentAddWritesOnce ==
    /\ \A p \in Procs :
          procs[p].ret.op = "add" => procs[p].ret.status = "ok"
    /\ (Exists(meta_files, ConcId) /\ \A p \in Procs : procs[p].pc \notin {"a_write", "r_write"})
          => /\ IsJsonObject(meta_files[ConcId].text)
             /\ \A k \in DictKeys(hist[ConcId]) \ {"label"} :
                   DictGet(JsonLoads(meta_files[ConcId].text), k) = DictGet(hist[ConcId], k)

----------------------------------------------------------------------------
(* SpecTime: the timestamp checks of build_pass1_from_overview on          *)
(* overviews whose bucket times are drawn freely                           *)

\* the bucket times Init draws from, in hundredths of a second
TimeValues == {0, 50, 100, 200, 300}

\* the bucket rates Init draws from: 1 Hz and 2 Hz
TimeRates == {100, 200}

\* every bucket holds values spread from 0.0 to 2.0 around 1.0
TimeCell == Cell(<<0>>, <<100>>, <<200>>)

\* the overviews of n rows: buckets consecutive or with one omitted, every
\* assignment of times to the rows
TimeOverviews(n) ==
    { [ columns |-> AllColumns,
        rows |-> [i \in 1..n |->
                    [ bucket |-> b[i], time |-> <<t[i]>>,
                      cells |-> [signal_a |-> TimeCell, signal_b |-> TimeCell] ]] ] :
        b \in BucketLists(n), t \in [1..n -> TimeValues] }

TimeOverviewCfg(hz) ==
    [ signals |-> <<"signal_a">>, hz |-> hz, agg |-> <<"min", "mean", "max">>,
      time_col |-> "timestamp" ]

TimePass1Cfg ==
    [ missing_rate |-> 100, flatline_eps |-> 1, flatline_min_run |-> 2,
      spike_mad_z |-> 100, top_k_windows |-> 5, top_n_signals |-> 2 ]

TimeInit ==
    /\ P1Idle
    /\ \E n \in 1..MaxRows : \E ov \in TimeOverviews(n) : \E hz \in TimeRates :
          inp = [overview_df |-> ov, overview_cfg |-> TimeOverviewCfg(hz),
                 pass1_cfg |-> TimePass1Cfg]
    /\ out = <<>>

\* Pass 1 runs on the drawn overview
TimeRun ==
    /\ out = <<>>
    /\ out' = << build_pass1_from_overview(inp.overview_df, "m_1", inp.overview_cfg,
                                           inp.pass1_cfg, "key", FALSE, 0) >>
    /\ UNCHANGED <<inp, meta_files, art_files, clock, hist, procs>>

TimeNext == TimeRun

SpecTime == TimeInit /\ [][TimeNext]_vars

\* the time of row i less the time of the row before it, in hundredths
TimeStep(rows, i) == rows[i].time[1] - rows[i - 1].time[1]

\* the rows that follow a gap: a step of more than 1.5 * (1 / hz)
RowsAfterGap(rows, hz) ==
    {i \in 2..Len(rows) : TimeStep(rows, i) * hz > GapFactor * 100}

\* the bucket index of each row that follows a gap, in row order
BucketsAfterGap(rows, hz) ==
    FlaggedBuckets(rows, [i \in 1..Len(rows) |-> i \in RowsAfterGap(rows, hz)])

\* monotonic is true exactly when no row's time is below the time of the
\* row before it
MonotonicAsSpecified(result, rows) ==
    result.timestamp_checks.monotonic
        <=> \A i \in 2..Len(rows) : ~(rows[i].time[1] < rows[i - 1].time[1])

\* gap_count is the number of rows that follow a gap
GapCountAsSpecified(result, rows) ==
    result.timestamp_checks.gap_count
        = Cardinality(RowsAfterGap(rows, result.overview_cfg.hz))

\* a series with step exactly 1 / hz is monotonic and has no gap
RegularSeriesClean(result, rows) ==
    (\A i \in 2..Len(rows) : TimeStep(rows, i) * result.overview_cfg.hz = 100 * 100)
        => /\ result.timestamp_checks.monotonic
           /\ result.timestamp_checks.gap_count = 0

\* gap_indices lists the bucket index of each bucket that follows a gap
GapIndicesAreBuckets(result, rows) ==
    result.timestamp_checks.gap_indices
        = BucketsAfterGap(rows, result.overview_cfg.hz)

\* C11: monotonic is true exactly when no bucket time is smaller than the
\* time of the preceding bucket, gap_count is the number of consecutive
\* bucket pairs more than 1.5 * (1/hz) apart, gap_indices lists the bucket
\* index of each bucket that follows such a gap, and a strictly increasing
\* series with step 1/hz reports monotonic = true and gap_count = 0.
C11_TimestampChecks ==
    (out # <<>> /\ out[1].status = "ok") =>
        \E rows \in {SortByBucket(inp.overview_df.rows)} :
            /\ MonotonicAsSpecified(out[1], rows)
            /\ GapCountAsSpecified(out[1], rows)
            /\ RegularSeriesClean(out[1], rows)
            /\ GapIndicesAreBuckets(out[1], rows)

----------------------------------------------------------------------------
(* SpecSig: sha256_file_signature on two states of one file                *)

\* the contents a state of the file may have: one byte; two and three
\* bytes that agree on the first HeadBytes bytes or differ there or only
\* after them; and twelve bytes
SigContents ==
    { <<"5">>,
      <<"4", "5">>,
      <<"4", "5", "c">>,
      <<"4", "5", "d">>,
      <<"4", "x", "c">>,
      <<"4", "5", "c", "c", "c", "c", "c", "c", "c", "c", "c", "c">> }

\* the modification times a state may have, in hundredths of a second:
\* 3 s, 3.5 s, 4 s and 234 s
SigMtimes == {300, 350, 400, 23400}

\* the states of the file: its size is the length of its content
SigStates ==
    { [size |-> Len(b), mtime |-> m, bytes |-> b] : b \in SigContents, m \in SigMtimes }

SigInit ==
    /\ P1Idle
    /\ \E f \in SigStates : \E g \in SigStates : inp = [before |-> f, after |-> g]
    /\ out = <<>>

\* the signature is taken of the file in both states
SigCall ==
    /\ out = <<>>
    /\ out' = << sha256_file_signature(inp.before), sha256_file_signature(inp.after) >>
    /\ UNCHANGED <<inp, meta_files, art_files, clock, hist, procs>>

SigNext == SigCall

SpecSig == SigInit /\ [][SigNext]_vars

\* whether two states agree on the first HeadBytes bytes
SameHead(f, g) ==
    /\ \A i \in 1..HeadBytes : (i <= Len(f.bytes)) <=> (i <= Len(g.bytes))
    /\ \A i \in 1..HeadBytes : i <= Len(f.bytes) /\ i <= Len(g.bytes) => f.bytes[i] = g.bytes[i]

\* states that agree on size, modification time and head have one signature
AgreeingStatesSameSignature ==
    (inp.before.size = inp.after.size /\ inp.before.mtime = inp.after.mtime
        /\ SameHead(inp.before, inp.after)) => out[1] = out[2]

\* a change only to bytes after the head leaves the signature unchanged
TailChangeUndetected ==
    (inp.before.size = inp.after.size /\ inp.before.mtime = inp.after.mtime
        /\ SameHead(inp.before, inp.after) /\ inp.before.bytes # inp.after.bytes)
            => out[1] = out[2]

\* states that differ in size, modification time or head have different
\* signatures
DifferingStatesDifferentSignature ==
    (inp.before.size # inp.after.size \/ inp.before.mtime # inp.after.mtime
        \/ ~SameHead(inp.before, inp.after)) => out[1] # out[2]

\* C12: two states of a file that agree on size, modification time and the
\* first N bytes have the same signature, two states that differ in size or
\* modification time or any of the first N bytes have different signatures,
\* and a change only to bytes after the first N leaves the signature
\* unchanged.
C12_FingerprintSensitivity ==
    out # <<>> =>
        /\ AgreeingStatesSameSignature
        /\ DifferingStatesDifferentSignature
        /\ TailChangeUndetected

----------------------------------------------------------------------------
(* SpecInvalid: one caller registers /data/a.csv, builds its overview at   *)
(* valid and invalid rates, and runs build_pass1_from_overview on the      *)
(* loaded overview under valid and invalid thresholds                      *)

\* the rates build_overview is called with: 1 Hz, 0 and -1 Hz
InvalidRates == {100, 0, -100}

\* a valid detection configuration
BasePass1Cfg ==
    [ missing_rate |-> 10, flatline_eps |-> 1, flatline_min_run |-> 2,
      spike_mad_z |-> 500, top_k_windows |-> 5, top_n_signals |-> 2 ]

\* the detection configurations Pass 1 is called with: the valid one, and
\* one for each way a threshold can leave its range
InvalidPass1Cfgs ==
    { BasePass1Cfg,
      [BasePass1Cfg EXCEPT !.missing_rate = -10],
      [BasePass1Cfg EXCEPT !.missing_rate = 110],
      [BasePass1Cfg EXCEPT !.flatline_eps = -1],
      [BasePass1Cfg EXCEPT !.flatline_min_run = 0],
      [BasePass1Cfg EXCEPT !.spike_mad_z = 0],
      [BasePass1Cfg EXCEPT !.spike_mad_z = -100] }

\* the caller loads the overview built at 1 Hz and runs Pass 1 on it
Pass1OnOverview(measurement_id, pass1_cfg) ==
    \E loaded \in {load_overview(art_files, measurement_id,
                       OverviewConfig(measurement_id, None, 100, DefaultAgg, "timestamp"))} :
    \E r \in { IF loaded.status # "ok" THEN [status |-> loaded.status]
               ELSE build_pass1_from_overview(loaded.table, measurement_id,
                        RunOverviewCfg(None, 100), pass1_cfg, "key", FALSE, clock) } :
       /\ out' = << [op |-> "pass1", measurement_id |-> measurement_id,
                     pass1_cfg |-> pass1_cfg, status |-> r.status,
                     ret |-> IF r.status = "ok" THEN r ELSE None] >>
       /\ UNCHANGED <<meta_files, art_files, clock, hist, procs, inp>>

InvalidNext ==
    \/ Tick
    \/ Add(ConcPath, None)
    \/ \E hz \in InvalidRates : BuildOverview(ConcId, None, hz)
    \/ \E cfg \in InvalidPass1Cfgs : Pass1OnOverview(ConcId, cfg)

SpecInvalid == StoreInit /\ [][InvalidNext]_vars

\* the declared ranges of the thresholds (missing_rate in hundredths)
ThresholdsInRange(pass1_cfg) ==
    /\ 0 <= pass1_cfg.missing_rate /\ pass1_cfg.missing_rate <= 100
    /\ pass1_cfg.flatline_eps >= 0
    /\ pass1_cfg.flatline_min_run >= 1
    /\ pass1_cfg.spike_mad_z > 0

\* a build_overview call with hz <= 0 raises ValueError, returns nothing
\* and leaves every artifact as it was
InvalidRateRejected ==
    \A hz \in InvalidRates :
        (/\ out' # <<>> /\ out'[1].op = "build_overview" /\ out'[1].hz = hz
         /\ hz <= 0
         /\ BuildOverview(ConcId, None, hz)) =>
            /\ out'[1].status = "ValueError"
            /\ art_files' = art_files

\* a Pass 1 call with a threshold out of range raises ValueError, returns
\* nothing and leaves every artifact as it was
InvalidThresholdRejected ==
    \A cfg \in InvalidPass1Cfgs :
        (/\ out' # <<>> /\ out'[1].op = "pass1" /\ out'[1].pass1_cfg = cfg
         /\ ~ThresholdsInRange(cfg)
         /\ ConcOverviewPath \in DOMAIN art_files
         /\ Pass1OnOverview(ConcId, cfg)) =>
            /\ out'[1].status = "ValueError"
            /\ art_files' = art_files

\* C13: every call with an invalid configuration (build_overview with
\* hz <= 0, Pass 1 with a threshold outside its declared range) fails with
\* a configuration error, returns no result and leaves the published
\* artifacts unchanged.
C13_InvalidConfigRejected ==
    [][ InvalidRateRejected /\ InvalidThresholdRejected ]_vars

\* the build_overview half of C13 on its own
C13_InvalidRateRejected == [][ InvalidRateRejected ]_vars

----------------------------------------------------------------------------
(* Window extraction (C14, C15), on the overviews of SpecPass1             *)

\* whether any configured signal flags row i of the sorted overview
RowFlagged(rows, result, i) ==
    \E sg \in DOMAIN result.per_signal : FlaggedMask(rows, sg, result.pass1_cfg)[i]

\* the rows of the sorted overview whose bucket lies in a window
WindowRows(rows, w) ==
    {i \in 1..Len(rows) : w.start_bucket <= rows[i].bucket /\ rows[i].bucket <= w.end_bucket}

\* C14: the windows are exactly the maximal contiguous runs of flagged rows
\* of the overview sorted by bucket: every flagged row lies in exactly one
\* window, no window contains an unflagged row, no two windows overlap or
\* are adjacent rows, and every window begins and ends at a row and has
\* start_bucket <= end_bucket.
C14_WindowsAreMaximalRuns ==
    (out # <<>> /\ out[1].status = "ok") =>
        \E rows \in {P1Rows} :
        \E flagged \in {{i \in 1..Len(rows) : RowFlagged(rows, out[1], i)}} :
           LET ws == out[1].windows
           IN /\ \A i \in flagged :
                    Cardinality({k \in 1..Len(ws) : i \in WindowRows(rows, ws[k])}) = 1
              /\ \A k \in 1..Len(ws) :
                    /\ WindowRows(rows, ws[k]) \subseteq flagged
                    /\ ws[k].start_bucket <= ws[k].end_bucket
                    /\ \E i, j \in 1..Len(rows) :
                          /\ rows[i].bucket = ws[k].start_bucket
                          /\ rows[j].bucket = ws[k].end_bucket
              /\ \A k, l \in 1..Len(ws) : k # l =>
                    \A i \in WindowRows(rows, ws[k]) : \A j \in WindowRows(rows, ws[l]) :
                        Abs(i - j) > 1

\* C14 witness: Pass 1 ran on an overview whose rows were not in bucket
\* order and returned two windows of one row each, the first and the last
\* row of the sorted overview, with the unflagged row between them in
\* neither window
C14_Witness ==
    /\ out # <<>> /\ out[1].status = "ok"
    /\ Len(inp.overview_df.rows) = 3
    /\ inp.overview_df.rows[1].bucket > inp.overview_df.rows[2].bucket
    /\ WindowSet(out[1]) = {<<0, 0>>, <<2, 2>>}
    /\ ~RowFlagged(P1Rows, out[1], 2)

\* C15: every window is a contiguous bucket range: each bucket index from
\* start_bucket to end_bucket is a bucket of the overview that some signal
\* flags, and duration_buckets is the number of flagged rows inside the
\* window.
C15_WindowIsBucketRange ==
    (out # <<>> /\ out[1].status = "ok") =>
        \E rows \in {P1Rows} :
        \A k \in 1..Len(out[1].windows) :
           LET w == out[1].windows[k]
           IN /\ \A b \in w.start_bucket..w.end_bucket :
                    \E i \in 1..Len(rows) :
                        rows[i].bucket = b /\ RowFlagged(rows, out[1], i)
              /\ w.duration_buckets
                    = Cardinality({i \in WindowRows(rows, w) : RowFlagged(rows, out[1], i)})

=============================================================================
